---- MODULE Spec2Model ----
(***************************************************************************)
(* glidercli: the session relay (lib/bserve.js) between one upstream       *)
(* browser-extension connection and any number of downstream CDP clients,  *)
(* and the BrowserCDP client library (lib/bcdp.js).                        *)
(*                                                                         *)
(* Node.js runs every handler to completion, so each action below is one   *)
(* handler (a WebSocket 'connection', 'message' or 'close' callback, a     *)
(* timer callback, or one library call) together with the promise          *)
(* continuations it resumes.                                               *)
(***************************************************************************)
EXTENDS Integers, Sequences, FiniteSets, TLC

\* ------------------------------------------------------------------ bounds
MaxExt == 2        \* upstream (extension) sockets alive at the same time
MaxConn == 2       \* downstream WebSocket sockets alive at the same time
MaxCalls == 2      \* send() calls per BrowserCDP instance
MaxCmds == 1       \* commands issued by the relay's WebSocket clients
MaxHttp == 2       \* HTTP requests issued to the relay
MaxEvents == 2     \* CDP events emitted by the upstream peer
MaxIter == 5       \* largest --max-iterations given to the loop
MaxSteps == 2      \* steps of a task
MaxRunSteps == 3   \* steps of a task given to the run command
MaxClock == 2      \* seconds the clock advances during a loop

\* --------------------------------------------------------------- value sets
Null == "null"                          \* JavaScript null / undefined
ClientIds == {"default", "a"}           \* path.split('/')[2] || 'default'
Sessions == {"s1", "s2"}                \* session identifiers
Targets == {"t1", "t2"}                 \* tab identifiers
Metas == {"m1", "m2"}                   \* tab metadata (url, title)
Args == {"p1", "p2"}                    \* command params
AutoAttach == "Target.setAutoAttach"
Evaluate == "Runtime.evaluate"
Methods == {AutoAttach, Evaluate}       \* methods the clients issue
AttachedEv == "Target.attachedToTarget"
DetachedEv == "Target.detachedFromTarget"
InfoChangedEv == "Target.targetInfoChanged"
LoadEv == "Page.loadEventFired"

ExtIds == 1..MaxExt
ConnIds == 1..MaxConn

\* targetInfo objects; `attached` is "unset" when the property is absent
NoInfo == [targetId |-> Null, meta |-> Null, attached |-> "unset"]
TargetInfo(t, m) == [targetId |-> t, meta |-> m, attached |-> "unset"]

\* result payloads
Res(tag, method, arg, sessionId, infos) ==
    [tag |-> tag, method |-> method, arg |-> arg, sessionId |-> sessionId,
     infos |-> infos]
NoRes == Res(Null, Null, Null, Null, <<>>)          \* no result property
EmptyRes == Res("empty", Null, Null, Null, <<>>)    \* {}

\* One wire message.  kind is "call", "reply" or "event"; the fields a
\* JSON message does not carry are Null / 0 / NoInfo / NoRes.
Msg(kind, id, method, sessionId, arg, psid, info, serial, result, error) ==
    [kind |-> kind, id |-> id, method |-> method, sessionId |-> sessionId,
     arg |-> arg, psid |-> psid, info |-> info, serial |-> serial,
     result |-> result, error |-> error]

\* {id, method, params, sessionId?}
CallMsg(id, method, arg, sessionId) ==
    Msg("call", id, method, sessionId, arg, Null, NoInfo, 0, NoRes, Null)
\* {id, sessionId, result}
ReplyMsg(id, sessionId, result) ==
    Msg("reply", id, Null, sessionId, Null, Null, NoInfo, 0, result, Null)
\* {id, sessionId, error: {message}}
ErrorMsg(id, sessionId, message) ==
    Msg("reply", id, Null, sessionId, Null, Null, NoInfo, 0, NoRes, message)
\* {method, params, sessionId}; params = {sessionId: psid, targetInfo: info}
EventMsg(method, sessionId, psid, info, serial) ==
    Msg("event", 0, method, sessionId, Null, psid, info, serial, NoRes, Null)

\* ------------------------------------------------------------------- state
VARIABLES
    extensionWs,        \* bserve: the active upstream connection, 0 = null
    playwrightClients,  \* bserve: clientId -> connection, 0 = no entry
    connectedTargets,   \* bserve: Map sessionId -> target, in insertion order
    pendingRequests,    \* bserve: Map id -> continuation of the awaiting caller
    messageId,          \* bserve: last identifier issued upstream
    upCalls,            \* bserve: the promise of each sendToExtension call, by id
    extConn,            \* per upstream socket: "none", "open" or "closing"
    extInbox,           \* per upstream socket: the calls it received and can answer
    wsConn,             \* per downstream socket: state, clientId, accepted
    toClient,           \* per downstream socket: what the last handler wrote to it
    httpResp,           \* responses of the HTTP requests served so far
    nEvents,            \* number of events the upstream peer has emitted
    nCmds,              \* number of commands the WebSocket clients have issued
    invalidated,        \* history: the downstream sockets that were registered
                        \* when the upstream dropped or was replaced, still alive
    cdpMessageId,       \* BrowserCDP.messageId
    cdpPending,         \* BrowserCDP.pending: Map id -> call (its resolve/reject)
    cdpSessionId,       \* BrowserCDP.sessionId
    cdpTargetId,        \* BrowserCDP.targetId
    cdpCalls,           \* BrowserCDP: the promise of each send() call, in call order
    cdpWire,            \* calls BrowserCDP has written to its socket, unanswered
    cdpInbox,           \* messages in flight to BrowserCDP, oldest first
    cdpEvents,          \* number of events sent to BrowserCDP
    loopState,          \* cmdLoop: the `state` record
    stateFile,          \* cmdLoop: the record last written to STATE_FILE
    loopPc,             \* cmdLoop: where the controller is suspended
    stepIdx,            \* cmdLoop: the step of the pass that runs next
    steps,              \* cmdLoop: task.steps, the operation names
    source,             \* what the task's source file holds now
    now,                \* Date.now() in seconds since state.startTime
    maxIterations,      \* cmdLoop: const maxIterations
    maxRuntime,         \* cmdLoop: const maxRuntime
    sleep,              \* cmdLoop: seconds of the last backoff sleep
    passes,             \* history: number of passes over the steps begun
    outputFrom,         \* history: iteration and step that set lastOutput
    fileSteps,          \* the step list the task's source file holds now
    options,            \* cmdLoop: the options argument, as main parsed it
    runSteps,           \* cmdRun: task.steps, the operation names
    runPc,              \* cmdRun: where the interpreter is suspended
    runIdx,             \* cmdRun: i + 1, the step that runs next
    failed,             \* cmdRun: let failed
    ran                 \* history: the steps executed and their outcomes

relayVars == <<extensionWs, playwrightClients, connectedTargets, pendingRequests,
               messageId, upCalls, extConn, extInbox, wsConn, toClient,
               httpResp, nEvents, nCmds, invalidated>>

cdpVars == <<cdpMessageId, cdpPending, cdpSessionId, cdpTargetId, cdpCalls,
             cdpWire, cdpInbox, cdpEvents>>

loopVars == <<loopState, stateFile, loopPc, stepIdx, steps, source, now,
              maxIterations, maxRuntime, sleep, passes, outputFrom,
              fileSteps, options>>

runVars == <<runSteps, runPc, runIdx, failed, ran>>

vars == <<relayVars, cdpVars, loopVars, runVars>>

\* ------------------------------------------------------ JavaScript Map (ordered)
\* connectedTargets is a sequence of entries, oldest insertion first.
MapHas(m, k) == \E i \in 1..Len(m) : m[i].sessionId = k
MapIndex(m, k) == CHOOSE i \in 1..Len(m) : m[i].sessionId = k
MapGet(m, k) == m[MapIndex(m, k)]
\* Map.set: an existing key keeps its position, a new key goes last
MapSet(m, k, v) ==
    IF MapHas(m, k) THEN [m EXCEPT ![MapIndex(m, k)] = v] ELSE Append(m, v)
\* Map.delete
MapDelete(m, k) == SelectSeq(m, LAMBDA e : e.sessionId # k)

\* Map.delete / Map.set on a Map held as a function
Without(f, k) == [x \in (DOMAIN f) \ {k} |-> f[x]]
With(f, k, v) == [x \in (DOMAIN f) \cup {k} |-> IF x = k THEN v ELSE f[x]]

\* the promise returned by one call: pending -> resolved | rejected
NewCall(id, method, arg, sessionId) ==
    [id |-> id, method |-> method, arg |-> arg, sessionId |-> sessionId,
     status |-> "pending", result |-> NoRes, error |-> Null, settles |-> 0]
\* new Promise's resolve/reject: only the first settlement takes effect
Resolve(call, result) ==
    IF call.status = "pending"
    THEN [call EXCEPT !.status = "resolved", !.result = result, !.settles = 1]
    ELSE [call EXCEPT !.settles = @ + 1]
Reject(call, message) ==
    IF call.status = "pending"
    THEN [call EXCEPT !.status = "rejected", !.error = message, !.settles = 1]
    ELSE [call EXCEPT !.settles = @ + 1]
\* new Error(`Timeout: ${method}`).message
TimeoutError(method) ==
    CASE method = "Runtime.evaluate" -> "Timeout: Runtime.evaluate"
      [] method = "Target.setAutoAttach" -> "Timeout: Target.setAutoAttach"
      [] method = "forwardCDPCommand" -> "Timeout: forwardCDPCommand"
      [] method = "attachActiveTab" -> "Timeout: attachActiveTab"
      [] OTHER -> "Timeout: other"

\* ============================================================ BrowserCDP
\* The relay as BrowserCDP sees it: it answers a call it received with a
\* result or an error carrying the call's id, and sends events.
Echo(call) == Res("value", call.method, call.arg, call.sessionId, <<>>)

CDPInit ==
    /\ cdpMessageId = 0
    /\ cdpPending = <<>>
    /\ cdpSessionId = Null
    /\ cdpTargetId = Null
    /\ cdpCalls = <<>>
    /\ cdpWire = {}
    /\ cdpInbox = <<>>
    /\ cdpEvents = 0

\* send(): the sessionId put on the wire (bcdp.js line 90)
WireSession(sessionId, bound) ==
    IF sessionId # Null THEN sessionId ELSE bound

\* async send(method, params = {}, sessionId = null)
CDPSend(method, arg, sessionId) ==
    /\ cdpMessageId < MaxCalls
    /\ LET id == cdpMessageId + 1
           msg == CallMsg(id, method, arg, WireSession(sessionId, cdpSessionId))
       IN /\ cdpMessageId' = id
          /\ cdpWire' = cdpWire \cup {msg}
          /\ cdpPending' = With(cdpPending, id, Len(cdpCalls) + 1)
          /\ cdpCalls' = Append(cdpCalls, NewCall(id, method, arg, msg.sessionId))
    /\ UNCHANGED <<cdpSessionId, cdpTargetId, cdpInbox, cdpEvents, relayVars, loopVars, runVars>>

\* a timer that rejects without deleting the entry
CDPExpireKeep(pending, id) == pending

\* send()'s setTimeout callback: this.pending.delete(id)
CDPExpire(pending, id) == Without(pending, id)

\* the setTimeout callback of send(), 30000 ms after the call
CDPTimeout(id) ==
    /\ id \in DOMAIN cdpPending
    /\ cdpPending' = CDPExpire(cdpPending, id)
    /\ cdpCalls' = [cdpCalls EXCEPT ![cdpPending[id]] =
                        Reject(@, TimeoutError(@.method))]
    /\ UNCHANGED <<cdpMessageId, cdpSessionId, cdpTargetId, cdpWire, cdpInbox,
                   cdpEvents, relayVars, loopVars, runVars>>

\* a correlator that settles the oldest outstanding call (arrival order)
CDPLookupOldest(pending, id) ==
    IF id \in DOMAIN pending
    THEN {CHOOSE x \in DOMAIN pending : \A y \in DOMAIN pending : x <= y}
    ELSE {}

\* _handleMessage, msg.id !== undefined: the pending entry the reply settles
CDPLookup(pending, id) ==
    IF id \in DOMAIN pending THEN {id} ELSE {}

\* a handler that takes the session of every attachment event
HandleCDPMessageRebind(msg) ==
    IF msg.kind = "reply"
    THEN /\ LET hit == CDPLookup(cdpPending, msg.id)
            IN IF hit # {}
               THEN LET k == CHOOSE x \in hit : TRUE
                    IN /\ cdpPending' = Without(cdpPending, k)
                       /\ cdpCalls' = [cdpCalls EXCEPT ![cdpPending[k]] =
                              IF msg.error # Null THEN Reject(@, msg.error)
                              ELSE Resolve(@, msg.result)]
               ELSE UNCHANGED <<cdpPending, cdpCalls>>
         /\ UNCHANGED <<cdpSessionId, cdpTargetId>>
    ELSE /\ IF msg.method = AttachedEv
            THEN /\ cdpSessionId' = msg.psid
                 /\ cdpTargetId' = msg.info.targetId
            ELSE UNCHANGED <<cdpSessionId, cdpTargetId>>
         /\ UNCHANGED <<cdpPending, cdpCalls>>

\* _handleMessage(msg)
HandleCDPMessage(msg) ==
    IF msg.kind = "reply"
    THEN /\ LET hit == CDPLookup(cdpPending, msg.id)
            IN IF hit # {}
               THEN LET k == CHOOSE x \in hit : TRUE
                    IN /\ cdpPending' = Without(cdpPending, k)
                       /\ cdpCalls' = [cdpCalls EXCEPT ![cdpPending[k]] =
                              IF msg.error # Null THEN Reject(@, msg.error)
                              ELSE Resolve(@, msg.result)]
               ELSE UNCHANGED <<cdpPending, cdpCalls>>
         /\ UNCHANGED <<cdpSessionId, cdpTargetId>>
    ELSE /\ IF msg.method = AttachedEv /\ cdpSessionId = Null
            THEN /\ cdpSessionId' = msg.psid
                 /\ cdpTargetId' = msg.info.targetId
            ELSE UNCHANGED <<cdpSessionId, cdpTargetId>>
         /\ UNCHANGED <<cdpPending, cdpCalls>>

\* ws.on('message', data => this._handleMessage(JSON.parse(data)))
CDPReceive ==
    /\ cdpInbox # <<>>
    /\ HandleCDPMessage(Head(cdpInbox))
    /\ cdpInbox' = Tail(cdpInbox)
    /\ UNCHANGED <<cdpMessageId, cdpWire, cdpEvents, relayVars, loopVars, runVars>>

\* the relay answers one call it received, with a result or with an error
PeerReply(msg, ok) ==
    /\ msg \in cdpWire
    /\ cdpWire' = cdpWire \ {msg}
    /\ cdpInbox' = Append(cdpInbox,
           IF ok THEN ReplyMsg(msg.id, msg.sessionId, Echo(msg))
           ELSE ErrorMsg(msg.id, msg.sessionId, "RemoteError"))
    /\ UNCHANGED <<cdpMessageId, cdpPending, cdpSessionId, cdpTargetId,
                   cdpCalls, cdpEvents, relayVars, loopVars, runVars>>

\* the relay sends an event
PeerEvent(method, s, t) ==
    /\ cdpEvents < MaxEvents
    /\ cdpEvents' = cdpEvents + 1
    /\ cdpInbox' = Append(cdpInbox,
           EventMsg(method, Null, s, TargetInfo(t, "m1"), cdpEvents + 1))
    /\ UNCHANGED <<cdpMessageId, cdpPending, cdpSessionId, cdpTargetId,
                   cdpCalls, cdpWire, relayVars, loopVars, runVars>>

CDPNext ==
    \/ \E a \in Args, s \in {Null, "s2"} : CDPSend(Evaluate, a, s)
    \/ \E id \in DOMAIN cdpPending : CDPTimeout(id)
    \/ CDPReceive
    \/ \E msg \in cdpWire, ok \in BOOLEAN : PeerReply(msg, ok)
    \/ \E m \in {AttachedEv, DetachedEv}, s \in Sessions :
           PeerEvent(m, s, IF s = "s1" THEN "t1" ELSE "t2")

\* ================================================================ relay
NoConn == [state |-> "none", clientId |-> Null, accepted |-> FALSE]

RelayInit ==
    /\ extensionWs = 0
    /\ playwrightClients = [k \in ClientIds |-> 0]
    /\ connectedTargets = <<>>
    /\ pendingRequests = <<>>
    /\ messageId = 0
    /\ upCalls = <<>>
    /\ extConn = [e \in ExtIds |-> "none"]
    /\ extInbox = [e \in ExtIds |-> {}]
    /\ wsConn = [c \in ConnIds |-> NoConn]
    /\ toClient = [c \in ConnIds |-> <<>>]
    /\ httpResp = <<>>
    /\ nEvents = 0
    /\ nCmds = 0
    /\ invalidated = {}

\* A socket is "open", "closing" (close() was called on it, its 'close' event
\* is still to come) or "none": not connected yet, or closed.  A closed
\* socket is never used again, so its place serves the next connection.
\* a socket on which 'message' and 'close' events can still be emitted
Live(state) == state \in {"open", "closing"}

\* ws.close() on every connection of cs: an OPEN socket starts closing
CloseAll(conns, cs) ==
    [c \in ConnIds |->
        IF c \in cs /\ conns[c].state = "open"
        THEN [conns[c] EXCEPT !.state = "closing"] ELSE conns[c]]

\* no message written to any downstream socket
Quiet == [c \in ConnIds |-> <<>>]

\* a send that is silently lost
WsSendLost(q, c, msgs) == q

\* ws.send(): a socket that is not OPEN drops the message
WsSend(q, c, msgs) ==
    IF c # 0 /\ wsConn[c].state = "open"
    THEN [q EXCEPT ![c] = q[c] \o msgs] ELSE q

\* the connections held in playwrightClients
Registered == {playwrightClients[k] : k \in ClientIds} \ {0}

\* GET /status
GetStatus ==
    [extension |-> extensionWs # 0, targets |-> Len(connectedTargets),
     clients |-> Cardinality({k \in ClientIds : playwrightClients[k] # 0})]

\* GET /targets: Array.from(connectedTargets.values())
GetTargets == connectedTargets

\* ---------------------------------------------------- upstream connection
\* handleExtensionConnection: the connection that becomes extensionWs
AcceptedUpstream(old, new) == new

\* a replacement that keeps the sessions of the replaced connection
TargetsKept(targets) == targets

\* handleExtensionConnection: the session table after a replacement
TargetsAfterReplace(targets) == <<>>

\* wss.on('connection'), path '/extension': handleExtensionConnection(ws)
ExtConnect(e) ==
    /\ extConn[e] = "none"
    /\ \A d \in ExtIds : d < e => extConn[d] # "none"
    /\ extensionWs' = AcceptedUpstream(extensionWs, e)
    /\ IF extensionWs # 0
       THEN /\ extConn' = [extConn EXCEPT
                   ![e] = "open",
                   ![extensionWs] = IF @ = "open" THEN "closing" ELSE @]
            /\ connectedTargets' = TargetsAfterReplace(connectedTargets)
            /\ invalidated' = invalidated \cup Registered
       ELSE /\ extConn' = [extConn EXCEPT ![e] = "open"]
            /\ UNCHANGED <<connectedTargets, invalidated>>
    /\ toClient' = Quiet
    /\ UNCHANGED <<playwrightClients, pendingRequests, messageId, upCalls,
                   extInbox, wsConn, httpResp, nEvents, nCmds, cdpVars, loopVars, runVars>>

\* the 'close' handler of handleExtensionConnection: the new extensionWs
UpstreamAfterClose(current, closed) == 0

\* ws.on('close') of an upstream connection
ExtClose(e) ==
    /\ Live(extConn[e])
    /\ extConn' = [extConn EXCEPT ![e] = "none"]
    /\ extensionWs' = UpstreamAfterClose(extensionWs, e)
    /\ connectedTargets' = <<>>
    /\ wsConn' = CloseAll(wsConn, Registered)
    /\ playwrightClients' = [k \in ClientIds |-> 0]
    /\ extInbox' = [extInbox EXCEPT ![e] = {}]
    /\ invalidated' = invalidated \cup Registered
    /\ toClient' = Quiet
    /\ UNCHANGED <<pendingRequests, messageId, upCalls, httpResp, nEvents,
                   nCmds, cdpVars, loopVars, runVars>>

\* --------------------------------------------------- upstream correlator
\* the message an await-ing WebSocket handler sends when its call settles
\* (bserve.js lines 203 and 219)
WsAnswer(cont, ok, result, message) ==
    IF ok THEN ReplyMsg(cont.id, cont.sessionId, result)
    ELSE ErrorMsg(cont.id, cont.sessionId, message)

\* the response an await-ing HTTP handler writes when its call settles
HttpAnswer(ok, result, message) ==
    IF ok THEN [status |-> 200, result |-> result, error |-> Null]
    ELSE [status |-> 500, result |-> NoRes, error |-> message]

\* resume the caller awaiting a settled sendToExtension promise
Resume(cont, ok, result, message) ==
    IF cont.kind = "ws"
    THEN /\ toClient' = WsSend(Quiet, cont.conn,
                               <<WsAnswer(cont, ok, result, message)>>)
         /\ UNCHANGED httpResp
    ELSE /\ httpResp' = [httpResp EXCEPT ![cont.h] =
                             HttpAnswer(ok, result, message)]
         /\ toClient' = Quiet

\* a deadline that empties the table
AfterTimeoutClear(pending, id) == <<>>

\* a deadline that leaves the entry in the table
AfterTimeoutKeep(pending, id) == pending

\* sendToExtension's setTimeout callback: the table after the deadline
AfterTimeout(pending, id) == Without(pending, id)

\* sendToExtension's setTimeout callback, `timeout` ms after the call
UpTimeout(id) ==
    /\ id \in DOMAIN pendingRequests
    /\ pendingRequests' = AfterTimeout(pendingRequests, id)
    /\ upCalls' = [upCalls EXCEPT ![id] = Reject(@, TimeoutError(@.method))]
    /\ Resume(pendingRequests[id], FALSE, NoRes, TimeoutError(upCalls[id].method))
    /\ UNCHANGED <<extensionWs, playwrightClients, connectedTargets, messageId,
                   extConn, extInbox, wsConn, nEvents, nCmds, invalidated,
                   cdpVars, loopVars, runVars>>

\* handleExtensionMessage, msg.id !== undefined: the entry the reply settles
UpLookup(pending, id) ==
    IF id \in DOMAIN pending THEN {id} ELSE {}

\* ws.on('message') of an upstream connection, a reply {id, result | error}
ExtReply(e, msg, ok) ==
    /\ Live(extConn[e])
    /\ msg \in extInbox[e]
    /\ extInbox' = [extInbox EXCEPT ![e] = @ \ {msg}]
    /\ LET hit == UpLookup(pendingRequests, msg.id)
       IN IF hit # {}
          THEN LET k == CHOOSE x \in hit : TRUE
               IN /\ pendingRequests' = Without(pendingRequests, k)
                  /\ upCalls' = [upCalls EXCEPT ![k] =
                         IF ok THEN Resolve(@, Echo(msg))
                         ELSE Reject(@, "RemoteError")]
                  /\ Resume(pendingRequests[k], ok, Echo(msg), "RemoteError")
          ELSE /\ toClient' = Quiet
               /\ UNCHANGED <<pendingRequests, upCalls, httpResp>>
    /\ UNCHANGED <<extensionWs, playwrightClients, connectedTargets, messageId,
                   extConn, wsConn, nEvents, nCmds, invalidated, cdpVars, loopVars, runVars>>

\* a correlator that issues every call under the same identifier
SendToExtensionSameId(kind, method, arg, sessionId, cont) ==
    LET id == 1
        msg == Msg(kind, id, method, sessionId, arg, Null, NoInfo, 0, NoRes, Null)
    IN /\ messageId' = id
       /\ extInbox' = IF extConn[extensionWs] = "open"
                      THEN [extInbox EXCEPT ![extensionWs] = @ \cup {msg}]
                      ELSE extInbox
       /\ pendingRequests' = With(pendingRequests, id, cont)
       /\ upCalls' = Append(upCalls, NewCall(id, kind, arg, sessionId))

\* sendToExtension({method, params}) with extensionWs set, awaited by cont
SendToExtension(kind, method, arg, sessionId, cont) ==
    LET id == messageId + 1
        msg == Msg(kind, id, method, sessionId, arg, Null, NoInfo, 0, NoRes, Null)
    IN /\ messageId' = id
       /\ extInbox' = IF extConn[extensionWs] = "open"
                      THEN [extInbox EXCEPT ![extensionWs] = @ \cup {msg}]
                      ELSE extInbox
       /\ pendingRequests' = With(pendingRequests, id, cont)
       /\ upCalls' = Append(upCalls, NewCall(id, kind, arg, sessionId))

\* ------------------------------------------------------- routeCDPCommand
\* the most recently inserted session instead of the first
LastSession(targets) == targets[Len(targets)].sessionId

\* Array.from(connectedTargets.values())[0].sessionId
FirstSession(targets) == targets[1].sessionId

\* a resolution that also replaces an identifier the table does not hold
ResolveSessionFallback(sessionId, targets) ==
    IF (sessionId = Null \/ ~MapHas(targets, sessionId)) /\ Len(targets) > 0
    THEN FirstSession(targets) ELSE sessionId

\* routeCDPCommand: "auto-pick first session if none provided"
ResolveSession(sessionId, targets) ==
    IF sessionId = Null /\ Len(targets) > 0
    THEN FirstSession(targets) ELSE sessionId

\* { ...targetInfo, attached: true }
Attached(info) == [info EXCEPT !.attached = "true"]

\* the entries of the table whose targetId is t, oldest first
WithTarget(targets, t) == SelectSeq(targets, LAMBDA x : x.targetId = t)

LocalMethods ==
    {"Browser.getVersion", "Target.setAutoAttach", "Target.setDiscoverTargets",
     "Target.getTargets", "Target.attachToTarget", "Target.getTargetInfo"}

Local(result) == [kind |-> "local", result |-> result, error |-> Null]
Throw(message) == [kind |-> "throw", result |-> NoRes, error |-> message]
Forward == [kind |-> "forward", result |-> NoRes, error |-> Null]

\* a relay that forwards every method
RouteForwardAll(method, arg, sessionId, targets) == Forward

\* routeCDPCommand's switch: the local answer, a thrown error, or forwarding.
\* sessionId is the resolved one; params.targetId is the command's arg.
Route(method, arg, sessionId, targets) ==
    CASE method = "Browser.getVersion" ->
           Local(Res("version", Null, Null, Null, <<>>))
      [] method \in {"Target.setAutoAttach", "Target.setDiscoverTargets"} ->
           Local(EmptyRes)
      [] method = "Target.getTargets" ->
           Local(Res("targetInfos", Null, Null, Null,
                     [i \in 1..Len(targets) |-> Attached(targets[i].targetInfo)]))
      [] method = "Target.attachToTarget" ->
           IF WithTarget(targets, arg) # <<>>
           THEN Local(Res("session", Null, Null,
                          WithTarget(targets, arg)[1].sessionId, <<>>))
           ELSE Throw("Target not found")
      [] method = "Target.getTargetInfo" ->
           IF arg # Null /\ WithTarget(targets, arg) # <<>>
           THEN Local(Res("targetInfo", Null, Null, Null,
                          <<WithTarget(targets, arg)[1].targetInfo>>))
           ELSE IF sessionId # Null /\ MapHas(targets, sessionId)
           THEN Local(Res("targetInfo", Null, Null, Null,
                          <<MapGet(targets, sessionId).targetInfo>>))
           ELSE Local(Res("targetInfo", Null, Null, Null,
                          IF targets = <<>> THEN <<>>
                          ELSE <<targets[1].targetInfo>>))
      [] OTHER -> Forward

\* --------------------------------------------------------- upstream events
\* the events the upstream peer may emit as forwardCDPEvent, numbered n
ExtEvents(n) ==
    {EventMsg(AttachedEv, Null, "s1", TargetInfo("t1", "m1"), n),
     EventMsg(AttachedEv, Null, "s2", TargetInfo("t2", "m1"), n),
     EventMsg(DetachedEv, Null, "s1", NoInfo, n),
     EventMsg(InfoChangedEv, Null, Null, TargetInfo("t1", "m2"), n),
     EventMsg(LoadEv, "s1", Null, NoInfo, n)}

\* a tracker that leaves title/URL updates out
TrackTargetsStale(targets, ev) ==
    CASE ev.method = AttachedEv ->
           MapSet(targets, ev.psid,
                  [sessionId |-> ev.psid, targetId |-> ev.info.targetId,
                   targetInfo |-> ev.info])
      [] ev.method = DetachedEv -> MapDelete(targets, ev.psid)
      [] OTHER -> targets

\* handleExtensionMessage, "track targets"
TrackTargets(targets, ev) ==
    CASE ev.method = AttachedEv ->
           MapSet(targets, ev.psid,
                  [sessionId |-> ev.psid, targetId |-> ev.info.targetId,
                   targetInfo |-> ev.info])
      [] ev.method = DetachedEv -> MapDelete(targets, ev.psid)
      [] ev.method = InfoChangedEv ->
           IF \E i \in 1..Len(targets) : targets[i].targetId = ev.info.targetId
           THEN LET i == CHOOSE j \in 1..Len(targets) :
                           /\ targets[j].targetId = ev.info.targetId
                           /\ \A k \in 1..(j - 1) :
                                  targets[k].targetId # ev.info.targetId
                IN [targets EXCEPT ![i].targetInfo = ev.info]
           ELSE targets
      [] OTHER -> targets

\* const cdpEvent = { method, params, sessionId }
Forwarded(ev) == ev

\* for (const client of playwrightClients.values()) client.ws.send(...)
Broadcast(q, clients, msg) ==
    [c \in ConnIds |->
        IF c \in clients /\ wsConn[c].state = "open"
        THEN Append(q[c], msg) ELSE q[c]]

\* ws.on('message') of an upstream connection, a forwardCDPEvent message
ExtEvent(e, ev) ==
    /\ Live(extConn[e])
    /\ nEvents < MaxEvents
    /\ nEvents' = nEvents + 1
    /\ connectedTargets' = TrackTargets(connectedTargets, ev)
    /\ toClient' = Broadcast(Quiet, Registered, Forwarded(ev))
    /\ UNCHANGED <<extensionWs, playwrightClients, pendingRequests, messageId,
                   upCalls, extConn, extInbox, wsConn, httpResp, nCmds,
                   invalidated, cdpVars, loopVars, runVars>>

\* ---------------------------------------------------- downstream clients
\* a registration that never finds the identifier taken
DuplicateIdIgnored(clients, clientId) == FALSE

\* handleCDPConnection: playwrightClients.has(clientId)
DuplicateId(clients, clientId) == clients[clientId] # 0

\* wss.on('connection'), path '/cdp[/clientId]': handleCDPConnection
CDPConnect(c, clientId) ==
    /\ wsConn[c].state = "none"
    /\ \A d \in ConnIds : d < c => wsConn[d].state # "none"
    /\ IF DuplicateId(playwrightClients, clientId)
       THEN /\ wsConn' = [wsConn EXCEPT ![c] =
                   [state |-> "closing", clientId |-> clientId,
                    accepted |-> FALSE]]
            /\ UNCHANGED playwrightClients
       ELSE /\ wsConn' = [wsConn EXCEPT ![c] =
                   [state |-> "open", clientId |-> clientId, accepted |-> TRUE]]
            /\ playwrightClients' = [playwrightClients EXCEPT ![clientId] = c]
    /\ toClient' = Quiet
    /\ UNCHANGED <<extensionWs, connectedTargets, pendingRequests, messageId,
                   upCalls, extConn, extInbox, httpResp, nEvents,
                   nCmds, invalidated, cdpVars, loopVars, runVars>>

\* the continuations awaiting on behalf of socket c now hold a closed socket
Orphan(pending, c) ==
    [id \in DOMAIN pending |->
        IF pending[id].conn = c THEN [pending[id] EXCEPT !.conn = 0]
        ELSE pending[id]]

\* ws.on('close') of a downstream connection; a refused one has no handler
CDPClose(c) ==
    /\ Live(wsConn[c].state)
    /\ wsConn' = [wsConn EXCEPT ![c] = NoConn]
    /\ playwrightClients' =
           IF wsConn[c].accepted
           THEN [playwrightClients EXCEPT ![wsConn[c].clientId] = 0]
           ELSE playwrightClients
    /\ pendingRequests' = Orphan(pendingRequests, c)
    /\ invalidated' = invalidated \ {c}
    /\ toClient' = Quiet
    /\ UNCHANGED <<extensionWs, connectedTargets, messageId,
                   upCalls, extConn, extInbox, httpResp, nEvents,
                   nCmds, cdpVars, loopVars, runVars>>

\* "send attachedToTarget events after setAutoAttach": the condition
ReplayWanted(method, sessionId) == method = AutoAttach /\ sessionId = Null

\* a replay of the first session only
ReplayFirst(targets) ==
    [i \in 1..(IF Len(targets) > 0 THEN 1 ELSE 0) |->
        EventMsg(AttachedEv, Null, targets[i].sessionId,
                 [targets[i].targetInfo EXCEPT !.attached = "true"], 0)]

\* ... and the events, one per entry of the table
Replay(targets) ==
    [i \in 1..Len(targets) |->
        EventMsg(AttachedEv, Null, targets[i].sessionId,
                 Attached(targets[i].targetInfo), 0)]

\* ws.on('message') of a downstream connection: {id, method, params, sessionId}
CDPMessage(c, method, arg, sessionId) ==
    /\ Live(wsConn[c].state)
    /\ nCmds < MaxCmds
    /\ nCmds' = nCmds + 1
    /\ LET id == nCmds + 1
           sid == ResolveSession(sessionId, connectedTargets)
           r == Route(method, arg, sid, connectedTargets)
       IN IF ~wsConn[c].accepted
          THEN /\ toClient' = Quiet
               /\ UNCHANGED <<messageId, extInbox, pendingRequests, upCalls>>
          ELSE IF extensionWs = 0
          THEN /\ toClient' = WsSend(Quiet, c,
                      <<ErrorMsg(id, Null, "Extension not connected")>>)
               /\ UNCHANGED <<messageId, extInbox, pendingRequests, upCalls>>
          ELSE IF r.kind = "forward"
          THEN /\ SendToExtension("forwardCDPCommand", method, arg, sid,
                      [kind |-> "ws", conn |-> c, id |-> id,
                       sessionId |-> sessionId, h |-> 0])
               /\ toClient' = Quiet
          ELSE /\ toClient' = WsSend(Quiet, c,
                      IF r.kind = "throw"
                      THEN <<ErrorMsg(id, sessionId, r.error)>>
                      ELSE <<ReplyMsg(id, sessionId, r.result)>> \o
                           (IF ReplayWanted(method, sessionId)
                            THEN Replay(connectedTargets) ELSE <<>>))
               /\ UNCHANGED <<messageId, extInbox, pendingRequests, upCalls>>
    /\ UNCHANGED <<extensionWs, playwrightClients, connectedTargets, extConn,
                   wsConn, httpResp, nEvents, invalidated, cdpVars, loopVars, runVars>>

\* -------------------------------------------------------------- HTTP
PendingResponse == [status |-> 0, result |-> NoRes, error |-> Null]
HttpCont(h) ==
    [kind |-> "http", conn |-> 0, id |-> 0, sessionId |-> Null, h |-> h]

\* POST /attach
HttpAttach ==
    /\ Len(httpResp) < MaxHttp
    /\ IF extensionWs = 0
       THEN /\ httpResp' = Append(httpResp,
                   HttpAnswer(FALSE, NoRes, "Extension not connected"))
            /\ UNCHANGED <<messageId, extInbox, pendingRequests, upCalls>>
       ELSE /\ httpResp' = Append(httpResp, PendingResponse)
            /\ SendToExtension("attachActiveTab", Null, Null, Null,
                               HttpCont(Len(httpResp) + 1))
    /\ toClient' = Quiet
    /\ UNCHANGED <<extensionWs, playwrightClients, connectedTargets, extConn,
                   wsConn, nEvents, nCmds, invalidated, cdpVars, loopVars, runVars>>

\* POST /cdp with body {method, params, sessionId}
HttpCdp(method, arg, sessionId) ==
    /\ Len(httpResp) < MaxHttp
    /\ LET sid == ResolveSession(sessionId, connectedTargets)
           r == Route(method, arg, sid, connectedTargets)
       IN IF r.kind = "forward" /\ extensionWs # 0
          THEN /\ httpResp' = Append(httpResp, PendingResponse)
               /\ SendToExtension("forwardCDPCommand", method, arg, sid,
                                  HttpCont(Len(httpResp) + 1))
          ELSE /\ httpResp' = Append(httpResp,
                      IF r.kind = "forward"
                      THEN HttpAnswer(FALSE, NoRes, "Extension not connected")
                      ELSE HttpAnswer(r.kind = "local", r.result, r.error))
               /\ UNCHANGED <<messageId, extInbox, pendingRequests, upCalls>>
    /\ toClient' = Quiet
    /\ UNCHANGED <<extensionWs, playwrightClients, connectedTargets, extConn,
                   wsConn, nEvents, nCmds, invalidated, cdpVars, loopVars, runVars>>

\* ================================================================ cmdLoop
\* The autonomous loop of bin/glider.js.  The controller runs from one
\* await to the next without interruption; each action below is one such
\* stretch.  A step's transport call (httpPost) is answered by the relay
\* ("ok"), answered with an error body ("relayError"), or fails on the
\* socket ("transportError").
DefaultIterations == 10     \* options.maxIterations || 10
DefaultRuntime == 3600      \* options.maxRuntime || 3600
CheckpointInterval == 5     \* options.checkpointInterval || 5
BackoffCap == 30            \* Math.min(30, ...)

\* options.maxIterations || 10 and options.maxRuntime || 3600
IterationsOption(n) == IF n = 0 THEN DefaultIterations ELSE n
RuntimeOption(t) == IF t = 0 THEN DefaultRuntime ELSE t

\* the operations a step may name; "bad" is a step that is no
\* {operation: argument} object (Object.entries(step)[0] throws)
StepKinds == {"goto", "wait", "eval", "click", "screenshot", "bad"}
Tasks == UNION {[1..n -> StepKinds] : n \in 0..MaxSteps}

\* what a Runtime.evaluate returns as result.value
MarkerText == "text LOOP_COMPLETE"
Outputs == {Null, "text", MarkerText, "object"}

\* what the task's source file holds: it is "missing" (inline prompt), or
\* it exists and contains the marker, the word DONE, or neither
Sources == {"missing", "plain", "marker", "DONE"}

\* String(value)
StringOf(v) == IF v = "object" THEN "[object Object]" ELSE v
\* str.includes(completionMarker)
IncludesMarker(str) == str = MarkerText
\* a controller that does not look at the output
OutputIgnored(v) == FALSE

\* state.lastOutput && String(state.lastOutput).includes(completionMarker)
OutputCompletes(v) == v # Null /\ IncludesMarker(StringOf(v))
\* a controller that looks for the marker only, not for DONE
SourceMarkerOnly(src) == src = "marker"

\* fs.existsSync(task) && (content.includes(marker) || includes('DONE'))
SourceCompletes(src) == src # "missing" /\ src \in {"marker", "DONE"}

\* Math.pow(2, n)
RECURSIVE Pow2(_)
Pow2(n) == IF n = 0 THEN 1 ELSE 2 * Pow2(n - 1)
\* a backoff without the cap
BackoffUncapped(errors) == Pow2(errors)

\* Math.min(30, Math.pow(2, state.errors.length))
Backoff(errors) ==
    IF Pow2(errors) < BackoffCap THEN Pow2(errors) ELSE BackoffCap

\* the answers a step's transport call can get
OutcomesOf(kind) ==
    CASE kind \in {"goto", "eval", "screenshot"} ->
           {"ok", "relayError", "transportError"}
      [] kind = "click" -> {"ok", "notFound", "relayError", "transportError"}
      [] OTHER -> {"ok"}

\* how a step ends: the pass goes on ("next"), the step throws into
\* cmdLoop's catch ("throw"), or the step calls process.exit(1) ("exit")
StepEffect(kind, outcome) ==
    CASE kind = "goto" ->
           IF outcome = "transportError" THEN "exit" ELSE "next"
      [] kind = "eval" ->
           IF outcome = "transportError" THEN "throw" ELSE "next"
      [] kind = "click" ->
           IF outcome \in {"notFound", "transportError"} THEN "exit"
           ELSE "next"
      [] kind = "screenshot" ->
           IF outcome = "ok" THEN "next" ELSE "exit"
      [] kind = "bad" -> "throw"
      [] OTHER -> "next"

\* evalResult.result?.value
EvalValue(outcome, value) == IF outcome = "ok" THEN value ELSE Null

\* cmdLoop(taskFileOrPrompt, options) up to the first iteration, for a
\* source, a task and options drawn from the given sets
LoopStart(sources, tasks, iterations, runtimes) ==
    /\ loopState = [iteration |-> 0, status |-> "running",
                    lastOutput |-> Null, completed |-> <<>>, errors |-> <<>>]
    /\ stateFile = Null
    /\ loopPc = "boundary"
    /\ stepIdx = 0
    /\ source \in sources
    /\ steps \in (IF source = "missing" THEN {<<>>} ELSE tasks)
    /\ now = 0
    /\ options \in [maxIterations : iterations, maxRuntime : runtimes]
    /\ maxIterations = IterationsOption(options.maxIterations)
    /\ maxRuntime = RuntimeOption(options.maxRuntime)
    /\ sleep = 0
    /\ passes = 0
    /\ outputFrom = [iteration |-> 0, step |-> 0]
    /\ fileSteps = steps

\* a loop over any task and source, with -n 1..MaxIter and -t 1 or default
LoopInit == LoopStart(Sources, Tasks, 1..MaxIter, 0..1)

\* the loop command is not in use: an inline prompt, default options
LoopIdle == LoopStart({"missing"}, {<<>>}, {0}, {0})

\* a final save that writes the number of passes made
CountBeforeBound(iteration) == iteration - 1

\* the counter written by the final saveState when the bound is reached
CountAtBound(iteration) == iteration

\* safety checks that do not look at the clock
BoundStatusNoClock(iteration, elapsed) ==
    IF iteration > maxIterations THEN "max_iterations" ELSE "running"

\* "Safety checks": the status the loop takes at an iteration boundary
BoundStatus(iteration, elapsed) ==
    IF iteration > maxIterations THEN "max_iterations"
    ELSE IF elapsed > maxRuntime THEN "timeout"
    ELSE "running"

\* "Checkpoint": the file after `if (iteration % checkpointInterval === 0)`
Checkpoint(st) ==
    IF st.iteration % CheckpointInterval = 0 THEN st ELSE stateFile

\* a completion that sets the status and goes on to the next iteration
DecideNoBreak(st) ==
    /\ loopState' =
           IF OutputCompletes(st.lastOutput) \/ SourceCompletes(source)
           THEN [st EXCEPT !.status = "completed"]
           ELSE [st EXCEPT !.completed = Append(@, st.iteration)]
    /\ stateFile' = Checkpoint(loopState')
    /\ loopPc' = "boundary"
    /\ stepIdx' = 0

\* the end of a pass that raised no error: the completion checks, then the
\* success record and the checkpoint, or the break and the final save
Decide(st) ==
    IF OutputCompletes(st.lastOutput) \/ SourceCompletes(source)
    THEN /\ loopState' = [st EXCEPT !.status = "completed"]
         /\ stateFile' = loopState'
         /\ loopPc' = "done"
         /\ stepIdx' = 0
    ELSE /\ loopState' = [st EXCEPT !.completed = Append(@, st.iteration)]
         /\ stateFile' = Checkpoint(loopState')
         /\ loopPc' = "boundary"
         /\ stepIdx' = 0

\* the top of `while (state.status === 'running')`, after the delay between
\* iterations: the counter, the bounds, then the start of the pass
LoopBegin ==
    /\ loopPc = "boundary"
    /\ LET it == loopState.iteration + 1
           st == [loopState EXCEPT !.iteration = it]
           status == BoundStatus(it, now)
       IN IF status # "running"
          THEN /\ loopState' = [st EXCEPT !.status = status]
               /\ stateFile' = [loopState' EXCEPT
                                    !.iteration = CountAtBound(it)]
               /\ loopPc' = "done"
               /\ UNCHANGED <<stepIdx, passes>>
          ELSE /\ passes' = passes + 1
               /\ IF steps = <<>>
                  THEN Decide(st)
                  ELSE /\ loopState' = st
                       /\ loopPc' = "steps"
                       /\ stepIdx' = 1
                       /\ UNCHANGED stateFile
    /\ UNCHANGED <<steps, source, now, maxIterations, maxRuntime, sleep,
                   outputFrom, fileSteps, options,
                   relayVars, cdpVars, runVars>>

\* one step of the pass, from its call to the end of the stretch it resumes
LoopStep(outcome, value) ==
    /\ loopPc = "steps"
    /\ outcome \in OutcomesOf(steps[stepIdx])
    /\ LET kind == steps[stepIdx]
           effect == StepEffect(kind, outcome)
           st == IF kind = "eval" /\ effect = "next"
                 THEN [loopState EXCEPT
                          !.lastOutput = EvalValue(outcome, value)]
                 ELSE loopState
       IN /\ outputFrom' =
                 IF kind = "eval" /\ effect = "next"
                 THEN [iteration |-> loopState.iteration, step |-> stepIdx]
                 ELSE outputFrom
          /\ CASE effect = "exit" ->
                    /\ loopPc' = "exited"
                    /\ UNCHANGED <<loopState, stateFile, stepIdx, sleep>>
               [] effect = "throw" ->
                    /\ loopState' = [loopState EXCEPT
                           !.errors = Append(@, loopState.iteration)]
                    /\ sleep' = Backoff(Len(loopState'.errors))
                    /\ loopPc' = "backoff"
                    /\ UNCHANGED <<stateFile, stepIdx>>
               [] OTHER ->
                    IF stepIdx < Len(steps)
                    THEN /\ loopState' = st
                         /\ stepIdx' = stepIdx + 1
                         /\ UNCHANGED <<stateFile, loopPc, sleep>>
                    ELSE /\ Decide(st)
                         /\ UNCHANGED sleep
    /\ UNCHANGED <<steps, source, now, maxIterations, maxRuntime, passes,
                   fileSteps, options,
                   relayVars, cdpVars, runVars>>

\* the controller has yielded at an await: cmdLoop runs without one from
\* its start to the first step of the first pass
Suspended == loopState.iteration >= 1

\* the end of the backoff sleep: the checkpoint
LoopWake ==
    /\ loopPc = "backoff"
    /\ stateFile' = Checkpoint(loopState)
    /\ loopPc' = "boundary"
    /\ UNCHANGED <<loopState, stepIdx, steps, source, now, maxIterations,
                   maxRuntime, sleep, passes, outputFrom, fileSteps, options,
                   relayVars, cdpVars, runVars>>

\* a second passes on the clock while the controller is suspended
Tick ==
    /\ loopPc \in {"boundary", "steps", "backoff"}
    /\ Suspended
    /\ now < MaxClock
    /\ now' = now + 1
    /\ UNCHANGED <<loopState, stateFile, loopPc, stepIdx, steps, source,
                   maxIterations, maxRuntime, sleep, passes, outputFrom,
                   fileSteps, options,
                   relayVars, cdpVars, runVars>>

\* somebody rewrites, creates or removes the task's source file
EditSource(content) ==
    /\ loopPc \in {"boundary", "steps", "backoff"}
    /\ Suspended
    /\ content # source
    /\ source' = content
    /\ UNCHANGED <<loopState, stateFile, loopPc, stepIdx, steps, now,
                   maxIterations, maxRuntime, sleep, passes, outputFrom,
                   fileSteps, options,
                   relayVars, cdpVars, runVars>>

\* somebody rewrites the step list in the task's source file
EditSteps(list) ==
    /\ loopPc \in {"boundary", "steps", "backoff"}
    /\ Suspended
    /\ source # "missing"
    /\ list # fileSteps
    /\ fileSteps' = list
    /\ UNCHANGED <<loopState, stateFile, loopPc, stepIdx, steps, source, now,
                   maxIterations, maxRuntime, sleep, passes, outputFrom,
                   options, relayVars, cdpVars, runVars>>

LoopNext ==
    \/ LoopBegin
    \/ \E o \in {"ok", "notFound", "relayError", "transportError"},
          v \in Outputs : LoopStep(o, v)
    \/ LoopWake
    \/ Tick
    \/ \E c \in Sources : EditSource(c)

\* ================================================================ cmdRun
\* The YAML task runner (src/bin/glider.js, cmdRun): one pass over the steps.
\* A step is its operation name; the answer of its transport call is drawn
\* by the action that resumes it.
RunKinds == {"goto", "wait", "eval", "click", "type", "screenshot", "text",
             "log", "assert", "unknown"}
RunTasks == UNION {[1..n -> RunKinds] : n \in 0..MaxRunSteps}

\* what Runtime.evaluate returns for the expression of an assert step
BoolTrue == "boolean true"
CheckValues == {BoolTrue, "boolean false", "string true", Null}

\* the answers a step's transport call can get
RunOutcomesOf(kind) ==
    CASE kind \in {"goto", "eval", "text", "screenshot", "assert"} ->
           {"ok", "relayError", "transportError"}
      [] kind \in {"click", "type"} ->
           {"ok", "notFound", "relayError", "transportError"}
      [] OTHER -> {"ok"}

\* assertResult.result?.value === true
CheckPasses(outcome, value) == outcome = "ok" /\ value = BoolTrue

\* how a step ends: the interpreter goes on ("next"), it sets the failure
\* flag and goes on ("fail"), or the step calls process.exit(1) ("exit")
RunEffect(kind, outcome, value) ==
    CASE kind \in {"goto", "click", "screenshot"} -> StepEffect(kind, outcome)
      [] kind \in {"eval", "text"} ->
           IF outcome = "transportError" THEN "exit" ELSE "next"
      [] kind = "type" ->
           IF outcome \in {"notFound", "transportError"} THEN "exit"
           ELSE "next"
      [] kind = "assert" ->
           IF CheckPasses(outcome, value) THEN "next" ELSE "fail"
      [] OTHER -> "next"

\* cmdRun(taskFile) up to the first step, for a task drawn from the set
RunStart(tasks) ==
    /\ runSteps \in tasks
    /\ runPc = IF runSteps = <<>> THEN "done" ELSE "steps"
    /\ runIdx = 1
    /\ failed = FALSE
    /\ ran = <<>>

\* the run command is not in use
RunIdle == RunStart({<<>>})

\* the run command over any task
RunInit == RunStart(RunTasks)

\* one step of the for loop, and the result banner after the last step
RunStep(outcome, value) ==
    /\ runPc = "steps"
    /\ outcome \in RunOutcomesOf(runSteps[runIdx])
    /\ LET effect == RunEffect(runSteps[runIdx], outcome, value)
       IN /\ ran' = Append(ran, [step |-> runIdx, outcome |-> outcome,
                                 effect |-> effect])
          /\ IF effect = "exit"
             THEN /\ runPc' = "exited"
                  /\ UNCHANGED <<runIdx, failed>>
             ELSE /\ failed' = (failed \/ effect = "fail")
                  /\ runIdx' = runIdx + 1
                  /\ runPc' = IF runIdx < Len(runSteps) THEN "steps"
                              ELSE "done"
    /\ UNCHANGED <<runSteps, relayVars, cdpVars, loopVars>>

RunNext ==
    \E o \in {"ok", "notFound", "relayError", "transportError"},
       v \in CheckValues : RunStep(o, v)

\* the task's result: "Task completed successfully" or "Task failed"
TaskResult == IF failed THEN "failed" ELSE "succeeded"

\* ============================================================== bextract
\* bextract.js (src/unnamed/part_003): extractParallel opens one WebSocket
\* per session, all to RELAY_URL, and each sends one Runtime.evaluate for
\* its session when it opens.
\* RELAY_URL = 'ws://127.0.0.1:19988/cdp': the path carries no client id
EndpointClientId == "default"

\* extractFromSession: new WebSocket(RELAY_URL), as the relay sees it
ExtractOpen(c) == CDPConnect(c, EndpointClientId)

\* extractFromSession, ws.on('open'): the command for the session
ExtractSend(c, sessionId) == CDPMessage(c, Evaluate, "p1", sessionId)

\* extractFromSession: ws.close() after the reply or on the timer
ExtractClose(c) == CDPClose(c)

\* sessions attached at the upstream peer, and extractions run over them
ExtractNext ==
    \/ \E e \in ExtIds : ExtConnect(e)
    \/ \E e \in ExtIds : \E ev \in ExtEvents(nEvents + 1) :
           ev.method = AttachedEv /\ ExtEvent(e, ev)
    \/ \E e \in ExtIds : \E msg \in extInbox[e], ok \in BOOLEAN :
           ExtReply(e, msg, ok)
    \/ \E c \in ConnIds : ExtractOpen(c)
    \/ \E c \in ConnIds, s \in Sessions : ExtractSend(c, s)
    \/ \E c \in ConnIds : ExtractClose(c)

\* ============================================== the two step dispatchers
\* the case of cmdLoop's switch (cmd) a step lands in
LoopDispatch(kind) ==
    IF kind \in {"goto", "wait", "eval", "click", "screenshot"} THEN kind
    ELSE "default"

\* the case of cmdRun's switch (cmd) a step lands in
RunDispatch(kind) ==
    IF kind \in {"goto", "wait", "eval", "click", "type", "screenshot",
                 "text", "log", "assert"} THEN kind
    ELSE "default"

\* the operations of the task format
FormatKinds == {"goto", "wait", "eval", "click", "type", "screenshot",
                "assert", "log"}
PassTasks == UNION {[1..n -> FormatKinds] : n \in 1..MaxSteps}

\* the loop, for one iteration, and the runner over the same task file
InitPass ==
    /\ RelayInit /\ CDPInit
    /\ LoopStart({"plain"}, PassTasks, {1}, {0})
    /\ RunStart(PassTasks)
    /\ runSteps = steps

PassNext ==
    \/ LoopBegin
    \/ \E o \in {"ok", "notFound", "relayError", "transportError"},
          v \in CheckValues : LoopStep(o, v)
    \/ LoopWake
    \/ \E o \in {"ok", "notFound", "relayError", "transportError"},
          v \in CheckValues : RunStep(o, v)

\* ================================================================ system
Init == RelayInit /\ CDPInit /\ LoopIdle /\ RunIdle

\* the loop command run against an idle relay
InitLoop == RelayInit /\ CDPInit /\ LoopInit /\ RunIdle

\* a loop of two iterations over a task file that is being edited
InitEdit ==
    RelayInit /\ CDPInit /\ LoopStart({"plain"}, Tasks, {2}, {0}) /\ RunIdle

\* the loop command given -n 0, 1 or 2 and -t 0 or 1, over a task of at
\* most one step
InitOpts ==
    /\ RelayInit /\ CDPInit /\ RunIdle
    /\ LoopStart({"plain"}, {t \in Tasks : Len(t) <= 1}, 0..2, 0..1)

\* the run command beside an idle relay and an idle loop
InitRun == RelayInit /\ CDPInit /\ LoopIdle /\ RunInit

\* the loop and an editor of the task file
EditNext ==
    \/ LoopNext
    \/ \E list \in Tasks : EditSteps(list)

\* the relay with its upstream peer and its WebSocket clients
RelayNext ==
    \/ \E e \in ExtIds : ExtConnect(e)
    \/ \E e \in ExtIds : ExtClose(e)
    \/ \E e \in ExtIds : \E msg \in extInbox[e], ok \in BOOLEAN :
           ExtReply(e, msg, ok)
    \/ \E e \in ExtIds : \E ev \in ExtEvents(nEvents + 1) : ExtEvent(e, ev)
    \/ \E id \in DOMAIN pendingRequests : UpTimeout(id)
    \/ \E c \in ConnIds, k \in ClientIds : CDPConnect(c, k)
    \/ \E c \in ConnIds : CDPClose(c)
    \/ \E c \in ConnIds, m \in Methods, s \in {Null, "s2"} :
           CDPMessage(c, m, "p1", s)

\* BrowserCDP's correlator alone: calls, replies in any order, deadlines
CDPCorrNext ==
    \/ CDPSend(Evaluate, "p1", Null)
    \/ \E id \in DOMAIN cdpPending : CDPTimeout(id)
    \/ CDPReceive
    \/ \E msg \in cdpWire, ok \in BOOLEAN : PeerReply(msg, ok)

\* the relay's upstream correlator with HTTP callers
UpNext ==
    \/ \E e \in ExtIds : ExtConnect(e)
    \/ \E e \in ExtIds : ExtClose(e)
    \/ \E e \in ExtIds : \E msg \in extInbox[e], ok \in BOOLEAN :
           ExtReply(e, msg, ok)
    \/ \E id \in DOMAIN pendingRequests : UpTimeout(id)
    \/ HttpAttach
    \/ HttpCdp(Evaluate, "p1", Null)

\* connections coming and going, and upstream events
LifeNext ==
    \/ \E e \in ExtIds : ExtConnect(e)
    \/ \E e \in ExtIds : ExtClose(e)
    \/ \E e \in ExtIds : \E ev \in ExtEvents(nEvents + 1) : ExtEvent(e, ev)
    \/ \E c \in ConnIds, k \in ClientIds : CDPConnect(c, k)
    \/ \E c \in ConnIds : CDPClose(c)

\* commands arriving over WebSocket and over HTTP, upstream coming and going
FwdNext ==
    \/ \E e \in ExtIds : ExtConnect(e)
    \/ \E e \in ExtIds : ExtClose(e)
    \/ \E e \in ExtIds : \E msg \in extInbox[e], ok \in BOOLEAN :
           ExtReply(e, msg, ok)
    \/ \E id \in DOMAIN pendingRequests : UpTimeout(id)
    \/ \E c \in ConnIds : CDPConnect(c, "default")
    \/ \E c \in ConnIds : CDPClose(c)
    \/ \E c \in ConnIds : CDPMessage(c, Evaluate, "p1", Null)
    \/ HttpAttach
    \/ HttpCdp(Evaluate, "p1", Null)

\* the events of the upstream peer in SpecTable: those of ExtEvents, a
\* session attached again on another tab, and a detach of the other session
TableEvents(n) ==
    ExtEvents(n) \cup
    {EventMsg(AttachedEv, Null, "s1", TargetInfo("t2", "m2"), n),
     EventMsg(DetachedEv, Null, "s2", NoInfo, n)}

\* the session table under the upstream peer's events, read by the replay
TableNext ==
    \/ \E e \in ExtIds : ExtConnect(e)
    \/ \E e \in ExtIds : \E ev \in TableEvents(nEvents + 1) : ExtEvent(e, ev)
    \/ \E c \in ConnIds : CDPConnect(c, "default")
    \/ \E c \in ConnIds : CDPMessage(c, AutoAttach, "p1", Null)

\* the methods and params the clients issue in SpecRoute: every locally
\* answered method and a forwarded one, with a known and an unknown target
RouteMethods == LocalMethods \cup {Evaluate}
RouteArgs == {"t1", "p1"}

\* the relay's command routing, over WebSocket and over HTTP
RouteNext ==
    \/ \E e \in ExtIds : ExtConnect(e)
    \/ \E e \in ExtIds : \E ev \in ExtEvents(nEvents + 1) :
           ev.method = AttachedEv /\ ExtEvent(e, ev)
    \/ \E c \in ConnIds : CDPConnect(c, "default")
    \/ \E c \in ConnIds, m \in RouteMethods, a \in RouteArgs :
           CDPMessage(c, m, a, Null)
    \/ \E m \in RouteMethods, a \in RouteArgs : HttpCdp(m, a, Null)

\* calls of a WebSocket client and of HTTP callers pending together, beside
\* a second registered client
IsoNext ==
    \/ \E e \in ExtIds : ExtConnect(e)
    \/ \E e \in ExtIds : \E msg \in extInbox[e], ok \in BOOLEAN :
           ExtReply(e, msg, ok)
    \/ \E id \in DOMAIN pendingRequests : UpTimeout(id)
    \/ \E c \in ConnIds, k \in ClientIds : CDPConnect(c, k)
    \/ \E c \in ConnIds : CDPMessage(c, Evaluate, "p1", Null)
    \/ HttpCdp(Evaluate, "p1", Null)

\* both correlators: the relay's, with a WebSocket client issuing p1 and
\* HTTP callers issuing p2 across upstream replacement, and BrowserCDP's
IdsNext ==
    \/ \E e \in ExtIds : ExtConnect(e)
    \/ \E e \in ExtIds : ExtClose(e)
    \/ \E e \in ExtIds : \E msg \in extInbox[e] : ExtReply(e, msg, TRUE)
    \/ \E c \in ConnIds : CDPConnect(c, "default")
    \/ \E c \in ConnIds : CDPMessage(c, Evaluate, "p1", Null)
    \/ HttpCdp(Evaluate, "p2", Null)
    \/ CDPSend(Evaluate, "p1", Null)
    \/ CDPReceive
    \/ \E msg \in cdpWire : PeerReply(msg, TRUE)

\* setTimeout: a timer that was armed and not cleared fires
TimersFire ==
    /\ \A id \in 1..MaxCalls : WF_vars(CDPTimeout(id))
    /\ \A id \in 1..MaxHttp : WF_vars(UpTimeout(id))

\* ws: a socket on which close() was called emits its 'close' event
ClosesArrive ==
    /\ \A e \in ExtIds : WF_vars(extConn[e] = "closing" /\ ExtClose(e))
    /\ \A c \in ConnIds : WF_vars(wsConn[c].state = "closing" /\ CDPClose(c))

Spec == Init /\ [][RelayNext]_vars
SpecCDP == Init /\ [][CDPNext]_vars
SpecCorr == Init /\ [][CDPCorrNext \/ UpNext]_vars
FairCorr == SpecCorr /\ TimersFire
SpecLife == Init /\ [][LifeNext]_vars /\ ClosesArrive
SpecFwd == Init /\ [][FwdNext]_vars
SpecLoop == InitLoop /\ [][LoopNext]_vars
SpecEdit == InitEdit /\ [][EditNext]_vars
SpecRoute == Init /\ [][RouteNext]_vars
SpecIso == Init /\ [][IsoNext]_vars
SpecIds == Init /\ [][IdsNext]_vars
SpecExtract == Init /\ [][ExtractNext]_vars
SpecPass == InitPass /\ [][PassNext]_vars
SpecTable == Init /\ [][TableNext]_vars
SpecOpts == InitOpts /\ [][LoopNext]_vars
SpecRun == InitRun /\ [][RunNext]_vars

\* ================================================================ claims
\* C1: a reply that carries a call's identifier settles that call and no
\* other, whatever the order in which the replies arrive: every send() call
\* holds the identifier it was issued with, and a resolved call holds the
\* result of the reply made for its own method, params and session.
C1_ReplySettlesItsCall ==
    \A i \in 1..Len(cdpCalls) :
        /\ cdpCalls[i].id = i
        /\ cdpCalls[i].status = "resolved" =>
               cdpCalls[i].result = Echo(cdpCalls[i])
        /\ cdpCalls[i].status = "rejected" =>
               cdpCalls[i].error \in
                   {"RemoteError", TimeoutError(cdpCalls[i].method)}

\* C1 witness: two calls with different params are outstanding, and the
\* second was answered and resolved while the first is still pending
C1_OutOfOrderReply ==
    /\ Len(cdpCalls) = 2
    /\ cdpCalls[1].arg # cdpCalls[2].arg
    /\ cdpCalls[1].status = "pending"
    /\ 1 \in DOMAIN cdpPending
    /\ cdpCalls[2].status = "resolved"
    /\ cdpCalls[2].result.arg = cdpCalls[2].arg

\* the two correlation tables hold exactly the calls that are not settled,
\* and no call was settled twice
PendingIsUnsettled ==
    /\ DOMAIN cdpPending =
           {i \in 1..Len(cdpCalls) : cdpCalls[i].status = "pending"}
    /\ DOMAIN pendingRequests =
           {i \in 1..Len(upCalls) : upCalls[i].status = "pending"}
    /\ \A i \in 1..Len(cdpCalls) : cdpCalls[i].settles <= 1
    /\ \A i \in 1..Len(upCalls) : upCalls[i].settles <= 1

\* a step in which the deadline of a call passes: its entry leaves the
\* table and the caller is rejected with the timeout error
DeadlineRejects ==
    /\ \A id \in DOMAIN cdpPending :
           (id \notin DOMAIN cdpPending' /\ cdpInbox' = cdpInbox) =>
               /\ cdpCalls'[id].status = "rejected"
               /\ cdpCalls'[id].error = "Timeout: Runtime.evaluate"
    /\ \A id \in DOMAIN pendingRequests :
           (id \notin DOMAIN pendingRequests' /\ extInbox' = extInbox) =>
               /\ upCalls'[id].status = "rejected"
               /\ upCalls'[id].error \in {"Timeout: forwardCDPCommand",
                                          "Timeout: attachActiveTab"}
               /\ httpResp'[pendingRequests[id].h] =
                      [status |-> 500, result |-> NoRes,
                       error |-> upCalls'[id].error]

\* a step never changes a settled call nor a response already written, and
\* a reply whose identifier is in no table changes neither table
SettledStays ==
    /\ \A i \in 1..Len(cdpCalls) :
           cdpCalls[i].status # "pending" => cdpCalls'[i] = cdpCalls[i]
    /\ \A i \in 1..Len(upCalls) :
           upCalls[i].status # "pending" => upCalls'[i] = upCalls[i]
    /\ \A h \in 1..Len(httpResp) :
           httpResp[h].status # 0 => httpResp'[h] = httpResp[h]
    /\ (/\ cdpInbox # <<>>
        /\ cdpInbox' = Tail(cdpInbox)
        /\ Head(cdpInbox).id \notin DOMAIN cdpPending) =>
           cdpPending' = cdpPending /\ cdpCalls' = cdpCalls
    /\ \A e \in ExtIds : \A msg \in extInbox[e] :
           (msg \notin extInbox'[e] /\ extConn'[e] = extConn[e]
            /\ msg.id \notin DOMAIN pendingRequests) =>
               /\ pendingRequests' = pendingRequests
               /\ upCalls' = upCalls
               /\ httpResp' = httpResp

\* C2: in both correlators (BrowserCDP.send and the relay's sendToExtension)
\* a call whose deadline passes is rejected with a timeout error and leaves
\* the correlation table, and a reply that arrives afterwards is dropped
\* without any effect on the caller.
C2_TimeoutThenLateReply ==
    /\ []PendingIsUnsettled
    /\ [][DeadlineRejects /\ SettledStays]_vars

\* C2 witness: both correlators timed a call out; BrowserCDP's call was
\* answered after that and the late reply was received and discarded
C2_LateReplyDropped ==
    /\ cdpMessageId = 1
    /\ cdpCalls[1].status = "rejected"
    /\ cdpCalls[1].error = "Timeout: Runtime.evaluate"
    /\ cdpCalls[1].settles = 1
    /\ cdpWire = {}
    /\ cdpInbox = <<>>
    /\ messageId = 1
    /\ upCalls[1].status = "rejected"
    /\ upCalls[1].error = "Timeout: forwardCDPCommand"
    /\ httpResp[1].status = 500

\* C3: with timers that fire, every call that is pending is eventually
\* settled, and by one outcome only, also when the upstream connection
\* drops or is replaced while the call is outstanding.
C3_EverySettledOnce ==
    /\ \A id \in 1..MaxCalls :
           (id \in DOMAIN cdpPending) ~> (id \notin DOMAIN cdpPending)
    /\ \A id \in 1..MaxHttp :
           (id \in DOMAIN pendingRequests) ~>
               (id \notin DOMAIN pendingRequests)
    /\ []PendingIsUnsettled

\* C3 witness: a call forwarded upstream was settled by its deadline after
\* every upstream connection was gone, and a send() call was settled too
C3_SettledAfterDrop ==
    /\ messageId = 1
    /\ upCalls[1].status = "rejected"
    /\ upCalls[1].error = "Timeout: forwardCDPCommand"
    /\ upCalls[1].settles = 1
    /\ extensionWs = 0
    /\ \A e \in ExtIds : extConn[e] = "none"
    /\ cdpMessageId = 1
    /\ cdpCalls[1].status # "pending"

\* a step that replaces the active upstream connection by a new one
Replaced ==
    /\ extensionWs # 0
    /\ extensionWs' # 0
    /\ extensionWs' # extensionWs

\* C4: the active upstream connection stays the active one until it closes
\* itself or is replaced in its turn; in particular the close event of a
\* connection that was replaced does not clear the connection that
\* replaced it.
C4_ActiveUntilItCloses ==
    [][(extensionWs # 0 /\ extensionWs' # extensionWs) =>
           \/ extConn'[extensionWs] = "none"
           \/ Replaced]_vars

\* C5: a replacement of the upstream connection empties the session table,
\* so GET /targets answers the empty list, and an empty table gets its
\* first entry only from an attach event handled afterwards.
C5_ReplacementEmptiesSessions ==
    [][/\ Replaced => GetTargets' = <<>>
       /\ (connectedTargets = <<>> /\ connectedTargets' # <<>>) =>
              /\ nEvents' = nEvents + 1
              /\ extensionWs' = extensionWs
              /\ Len(connectedTargets') = 1
              /\ \E ev \in ExtEvents(nEvents') :
                     /\ ev.method = AttachedEv
                     /\ connectedTargets'[1].sessionId = ev.psid]_vars

\* C5 witness: sessions were attached, then the upstream connection was
\* replaced (the old socket still closing) and the table is empty
C5_EmptyAfterReplacement ==
    /\ nEvents >= 1
    /\ extensionWs = 2
    /\ extConn[1] = "closing"
    /\ extConn[2] = "open"
    /\ GetTargets = <<>>

\* C6: every downstream client that was registered when the upstream
\* connection dropped or was replaced is eventually closed and removed
\* from the client table.
C6_InvalidatedClientsClosed ==
    \A c \in ConnIds :
        (c \in invalidated) ~>
            (wsConn[c].state = "none" /\ c \notin Registered)

\* a step in which socket c connects as a downstream client under identifier k
Connects(c, k) ==
    /\ wsConn[c].state = "none"
    /\ wsConn'[c].state # "none"
    /\ wsConn'[c].clientId = k

\* a refused downstream socket is not registered, is written nothing and
\* has no command awaiting upstream
RefusedIsInert ==
    \A c \in ConnIds :
        (wsConn[c].state # "none" /\ ~wsConn[c].accepted) =>
            /\ wsConn[c].state = "closing"
            /\ c \notin Registered
            /\ toClient[c] = <<>>
            /\ \A id \in DOMAIN pendingRequests : pendingRequests[id].conn # c

\* C7: a downstream connection under an identifier that is already
\* registered is refused (closed) and the earlier holder stays registered;
\* no command of the refused connection is routed; at most one connection
\* is registered under an identifier.
C7_DuplicateRefused ==
    /\ [][\A c \in ConnIds, k \in ClientIds :
              (Connects(c, k) /\ playwrightClients[k] # 0) =>
                  /\ playwrightClients' = playwrightClients
                  /\ wsConn'[c].state = "closing"
                  /\ ~wsConn'[c].accepted
                  /\ wsConn'[playwrightClients[k]] =
                         wsConn[playwrightClients[k]]]_vars
    /\ [][\A c \in ConnIds, m \in Methods, s \in {Null, "s2"} :
              (CDPMessage(c, m, "p1", s) /\ ~wsConn[c].accepted) =>
                  /\ messageId' = messageId
                  /\ pendingRequests' = pendingRequests
                  /\ extInbox' = extInbox
                  /\ toClient' = Quiet]_vars
    /\ [][nEvents' = nEvents + 1 =>
              \A c \in Registered :
                  wsConn[c].state = "open" =>
                      /\ c \in Registered'
                      /\ Len(toClient'[c]) = 1
                      /\ toClient'[c][1].kind = "event"]_vars
    /\ [](/\ RefusedIsInert
          /\ \A k, l \in ClientIds :
                 (k # l /\ playwrightClients[k] # 0) =>
                     playwrightClients[k] # playwrightClients[l])

\* C7 witness: a connection was refused under an identifier whose earlier
\* holder is still registered and open
C7_RefusedBesideHolder ==
    \E c \in ConnIds :
        /\ wsConn[c].state = "closing"
        /\ ~wsConn[c].accepted
        /\ playwrightClients[wsConn[c].clientId] \notin {0, c}
        /\ wsConn[playwrightClients[wsConn[c].clientId]].state = "open"

\* a step in which the relay acknowledged a Target.setAutoAttach command
\* of socket c that carried session identifier s
AutoAttachAcked(c, s) ==
    /\ CDPMessage(c, AutoAttach, "p1", s)
    /\ toClient'[c] # <<>>
    /\ toClient'[c][1].kind = "reply"
    /\ toClient'[c][1].error = Null

\* after the acknowledgement, socket c is sent one attached event per
\* session of the table, in the table's order, and no other socket is
\* sent anything
ReplayedTo(c) ==
    /\ Len(toClient'[c]) = 1 + Len(connectedTargets)
    /\ \A i \in 1..Len(connectedTargets) :
           LET ev == toClient'[c][i + 1]
               t == connectedTargets[i]
           IN /\ ev.kind = "event"
              /\ ev.method = AttachedEv
              /\ ev.psid = t.sessionId
              /\ ev.info.targetId = t.targetInfo.targetId
              /\ ev.info.meta = t.targetInfo.meta
              /\ ev.info.attached = "true"
    /\ \A d \in ConnIds \ {c} : toClient'[d] = <<>>

\* C8 as stated: a client that issues Target.setAutoAttach while N sessions
\* exist receives, after the acknowledgement, exactly N synthesized
\* attached events, one per session, and no other client receives them.
C8_ReplayAfterAutoAttach ==
    [][\A c \in ConnIds, s \in {Null, "s2"} :
           AutoAttachAcked(c, s) => ReplayedTo(c)]_vars

\* C8 amended: a client that issues Target.setAutoAttach without a session
\* identifier while N sessions exist receives, after the acknowledgement,
\* exactly N synthesized attached events, one per session in the table's
\* order, and no other client receives them; a Target.setAutoAttach that
\* carries a session identifier is acknowledged and nothing is replayed.
C8_ReplayWithoutSession ==
    [][\A c \in ConnIds :
           /\ AutoAttachAcked(c, Null) => ReplayedTo(c)
           /\ AutoAttachAcked(c, "s2") =>
                  /\ Len(toClient'[c]) = 1
                  /\ \A d \in ConnIds \ {c} : toClient'[d] = <<>>]_vars

\* C8 witness: with two sessions in the table a client was sent the
\* acknowledgement followed by two attached events
C8_TwoSessionsReplayed ==
    \E c \in ConnIds :
        /\ Len(connectedTargets) = 2
        /\ nCmds = 1
        /\ Len(toClient[c]) = 3
        /\ toClient[c][1].kind = "reply"
        /\ toClient[c][2].psid = connectedTargets[1].sessionId
        /\ toClient[c][3].psid = connectedTargets[2].sessionId

\* C9: every event arriving from the upstream peer is sent, unmodified, to
\* every downstream client that is connected when it arrives.
C9_EventReachesEveryClient ==
    [][nEvents' = nEvents + 1 =>
           \E ev \in ExtEvents(nEvents') :
               \A c \in ConnIds :
                   (wsConn[c].state = "open" /\ wsConn[c].accepted) =>
                       toClient'[c] = <<ev>>]_vars

\* a step that forwards a command upstream under a new identifier
Forwards == messageId' = messageId + 1

\* C10: a command forwarded without a session identifier goes upstream
\* with the session inserted first among those in the table (none when
\* the table is empty), a command with a session identifier goes upstream
\* with that one, and the result the upstream peer returns is handed to
\* the caller unmodified.
C10_SessionResolution ==
    [][/\ Forwards =>
              LET id == messageId'
                  given == pendingRequests'[id].sessionId
              IN \E msg \in extInbox'[extensionWs] :
                     /\ msg.id = id
                     /\ msg.method = Evaluate
                     /\ msg.sessionId =
                            IF given # Null THEN given
                            ELSE IF connectedTargets = <<>> THEN Null
                            ELSE connectedTargets[1].sessionId
       /\ \A id \in (DOMAIN pendingRequests) \ (DOMAIN pendingRequests') :
              LET cont == pendingRequests[id]
              IN (/\ cont.conn # 0
                  /\ toClient'[cont.conn] # <<>>
                  /\ toClient'[cont.conn][1].error = Null) =>
                     \E e \in ExtIds : \E msg \in extInbox[e] :
                         /\ msg.id = id
                         /\ msg \notin extInbox'[e]
                         /\ toClient'[cont.conn] =
                                <<ReplyMsg(cont.id, cont.sessionId,
                                           Res("value", msg.method, msg.arg,
                                               msg.sessionId, <<>>))>>]_vars

\* C10 witness: with two sessions in the table, a command without a
\* session identifier is awaiting the upstream peer, which was sent it
\* with a session identifier
C10_FirstSessionPicked ==
    /\ Len(connectedTargets) = 2
    /\ messageId = 1
    /\ 1 \in DOMAIN pendingRequests
    /\ pendingRequests[1].sessionId = Null
    /\ \E msg \in extInbox[extensionWs] :
           msg.id = 1 /\ msg.sessionId = connectedTargets[1].sessionId

\* C11: a command that has to be forwarded while the relay has no upstream
\* connection fails at once with the "Extension not connected" error
\* reported to its caller: nothing is sent upstream, no identifier is
\* issued, no pending entry is created; and when an upstream connects
\* later, the relay sends it nothing on its own.
C11_NoUpstreamFailsFast ==
    /\ [][\A c \in ConnIds :
              (/\ extensionWs = 0
               /\ CDPMessage(c, Evaluate, "p1", Null)
               /\ wsConn[c].accepted) =>
                  /\ messageId' = messageId
                  /\ pendingRequests' = pendingRequests
                  /\ upCalls' = upCalls
                  /\ extInbox' = extInbox
                  /\ wsConn[c].state = "open" =>
                         /\ Len(toClient'[c]) = 1
                         /\ toClient'[c][1].id = nCmds'
                         /\ toClient'[c][1].error = "Extension not connected"
                         /\ toClient'[c][1].result = NoRes]_vars
    /\ [][(extensionWs = 0 /\ Len(httpResp') = Len(httpResp) + 1) =>
              /\ messageId' = messageId
              /\ pendingRequests' = pendingRequests
              /\ upCalls' = upCalls
              /\ extInbox' = extInbox
              /\ httpResp'[Len(httpResp')] =
                     [status |-> 500, result |-> NoRes,
                      error |-> "Extension not connected"]]_vars
    /\ [][(extensionWs' # 0 /\ extensionWs' # extensionWs) =>
              /\ messageId' = messageId
              /\ extInbox' = extInbox
              /\ pendingRequests' = pendingRequests
              /\ httpResp' = httpResp
              /\ toClient' = Quiet]_vars

\* C11 witness: a WebSocket command and an HTTP command were both refused
\* for want of an upstream connection, then an upstream connected and was
\* sent nothing
C11_RefusedThenConnected ==
    /\ nCmds = 1
    /\ messageId = 0
    /\ Len(httpResp) >= 1
    /\ httpResp[1].error = "Extension not connected"
    /\ extensionWs # 0
    /\ extInbox[extensionWs] = {}
    /\ pendingRequests = <<>>

\* ---------------------------------------------------------- loop claims
Terminal == {"completed", "max_iterations", "timeout"}

\* the loop is over: it left the while loop, or the process was ended
LoopOver == loopPc \in {"done", "exited"}

\* neither the last output nor the task's source holds the marker
NoMarker ==
    /\ loopState.lastOutput # MarkerText
    /\ source \in {"missing", "plain"}

\* C12: with maxIterations = n, a timeout that is not reached and steps and
\* source that do not produce the marker, the loop makes exactly n passes
\* over the steps and ends with status max_iterations.
C12_ExactlyMaxPasses ==
    (LoopOver /\ NoMarker /\ now <= maxRuntime) =>
        /\ loopState.status = "max_iterations"
        /\ passes = maxIterations

\* C13: when the loop ends with status max_iterations after n passes, the
\* iteration counter of the persisted state record equals n.
C13_PersistedCountIsMax ==
    (loopPc = "done" /\ loopState.status = "max_iterations") =>
        /\ passes = maxIterations
        /\ stateFile.status = "max_iterations"
        /\ stateFile.iteration = maxIterations

\* the position of the task's last eval step, 0 when it has none
LastEval ==
    IF \E i \in 1..Len(steps) : steps[i] = "eval"
    THEN CHOOSE i \in 1..Len(steps) :
             /\ steps[i] = "eval"
             /\ \A j \in (i + 1)..Len(steps) : steps[j] # "eval"
    ELSE 0

\* the output of the last eval step of the running iteration holds the marker
MarkerFromLastEval ==
    /\ outputFrom.iteration > 0
    /\ outputFrom.step = LastEval
    /\ loopState.lastOutput = MarkerText

\* a step in which a pass over the steps ends without an error
PassEnds ==
    \/ loopPc = "steps" /\ loopPc' \in {"boundary", "done"}
    \/ loopPc = "boundary" /\ passes' = passes + 1 /\ loopPc' # "steps"

C15_SourceCompletes ==
    [][(PassEnds /\ loopState'.lastOutput # MarkerText) =>
          IF source \in {"marker", "DONE"}
          THEN /\ loopState'.status = "completed"
               /\ loopPc' = "done"
          ELSE /\ loopState'.status = "running"
               /\ loopPc' = "boundary"
               /\ loopState'.completed =
                      Append(loopState.completed, loopState'.iteration)]_vars

\* C15 witness: a loop with steps completed because its source holds DONE
C15_CompletedByDone ==
    /\ loopState.status = "completed"
    /\ source = "DONE"
    /\ loopState.lastOutput # MarkerText
    /\ steps # <<>>
    /\ passes = 2

\* a step at an iteration boundary: the counter goes up by one
AtBoundary == loopState'.iteration = loopState.iteration + 1

\* C16 as stated: when at an iteration boundary the elapsed time exceeds
\* the timeout, no step of that iteration runs and the loop ends with
\* status timeout; a pass that has started is never interrupted.
C16_TimeoutAtBoundary ==
    /\ [][(AtBoundary /\ now > maxRuntime) =>
              /\ loopState'.status = "timeout"
              /\ loopPc' = "done"
              /\ passes' = passes]_vars
    /\ [][(loopState.status = "running" /\ loopState'.status = "timeout")
              => loopPc = "boundary"]_vars

\* C16 amended: when at an iteration boundary the iteration bound is not
\* exceeded and the elapsed time exceeds the timeout, no step of that
\* iteration runs and the loop ends with status timeout; when the
\* iteration bound is exceeded the loop ends with status max_iterations,
\* whatever the elapsed time; a pass that has started is never interrupted.
C16_TimeoutAfterIterationBound ==
    /\ [][AtBoundary =>
              /\ (loopState'.iteration <= maxIterations /\ now > maxRuntime)
                     => /\ loopState'.status = "timeout"
                        /\ loopPc' = "done"
                        /\ passes' = passes
              /\ loopState'.iteration > maxIterations
                     => /\ loopState'.status = "max_iterations"
                        /\ loopPc' = "done"
                        /\ passes' = passes
              /\ (loopState'.iteration <= maxIterations /\ now <= maxRuntime)
                     => passes' = passes + 1]_vars
    /\ [][(loopState.status = "running" /\ loopState'.status = "timeout")
              => loopPc = "boundary"]_vars

\* C16 witness: the loop ended with status timeout after at least one pass
\* and before its iteration bound
C16_TimedOut ==
    /\ loopState.status = "timeout"
    /\ passes >= 1
    /\ loopState.iteration <= maxIterations
    /\ now > maxRuntime

\* C17: whatever the outcomes of the steps, the loop ends in one of the
\* statuses completed, max_iterations and timeout.
C17_EndsTerminal ==
    LoopOver => loopState.status \in Terminal

\* C18: once the status is completed, max_iterations or timeout it never
\* changes again, and no step runs afterwards.
C18_TerminalIsFinal ==
    /\ [](loopState.status \in Terminal => loopPc = "done")
    /\ [][loopState.status \in Terminal =>
              /\ loopState' = loopState
              /\ loopPc' = loopPc
              /\ stepIdx' = stepIdx
              /\ outputFrom' = outputFrom
              /\ passes' = passes
              /\ stateFile' = stateFile]_vars

\* C18 witness: the loop ended on its iteration bound after an iteration
\* that raised an error and one that did not
C18_EndedAfterPasses ==
    /\ loopPc = "done"
    /\ loopState.status = "max_iterations"
    /\ Len(loopState.errors) >= 1
    /\ Len(loopState.completed) >= 1

\* min(30, 2^k) for the k-th error, written out
ExpectedSleep(k) ==
    CASE k = 1 -> 2 [] k = 2 -> 4 [] k = 3 -> 8 [] k = 4 -> 16 [] OTHER -> 30

\* C19: after the k-th iteration error the controller sleeps min(30, 2^k)
\* seconds: 2, 4 and 8 for the first three, and never more than 30.
C19_BackoffDoubles ==
    /\ [][Len(loopState'.errors) # Len(loopState.errors) =>
              /\ Len(loopState'.errors) = Len(loopState.errors) + 1
              /\ loopPc' = "backoff"
              /\ sleep' = ExpectedSleep(Len(loopState'.errors))]_vars
    /\ [](sleep <= 30)

\* C19 witness: five iterations raised an error and the fifth sleep was
\* capped at 30 seconds
C19_FifthSleepCapped ==
    /\ Len(loopState.errors) = 5
    /\ sleep = 30
    /\ loopPc = "backoff"

\* C20: when the transport call of a step fails, whatever the step's kind,
\* the controller records the error, backs off and goes on; the process
\* is not ended.
C20_TransportFailureCaught ==
    [][\A v \in Outputs :
           LoopStep("transportError", v) =>
               /\ loopPc' = "backoff"
               /\ Len(loopState'.errors) = Len(loopState.errors) + 1]_vars

\* C21: a step whose relay call is answered with an error (the relay's
\* Timeout for a command the upstream peer did not answer) makes the
\* iteration an iteration error: the error is recorded and the controller
\* backs off, and the iteration is not recorded as successful.
C21_RelayTimeoutIsIterationError ==
    [][\A v \in Outputs :
           LoopStep("relayError", v) =>
               /\ Len(loopState'.errors) = Len(loopState.errors) + 1
               /\ loopPc' = "backoff"
               /\ loopState'.completed = loopState.completed]_vars

\* a step in which an iteration ends and the loop goes on
IterationEnds ==
    /\ loopPc' = "boundary"
    /\ \/ loopPc \in {"steps", "backoff"}
       \/ loopPc = "boundary" /\ passes' = passes + 1

\* C22: the loop state is written to the state file after every iteration
\* whose number is a multiple of the checkpoint interval (5) and once when
\* the loop takes a terminal status; from then on the persisted record
\* equals the in-memory state, terminal status included.
C22_Checkpointing ==
    /\ [][(IterationEnds /\ loopState'.iteration % 5 = 0)
              => stateFile' = loopState']_vars
    /\ [][(loopState.status = "running" /\ loopState'.status \in Terminal)
              => stateFile' = loopState']_vars
    /\ [](loopState.status \in Terminal => stateFile = loopState)

\* C22 witness: the fifth iteration ended, after an error in some
\* iteration, and its checkpoint holds the running state
C22_FifthCheckpointed ==
    /\ loopState.iteration = 5
    /\ loopPc = "boundary"
    /\ loopState.status = "running"
    /\ Len(loopState.errors) >= 1
    /\ stateFile = loopState

\* C23: the task is read again from its source before every pass: the
\* steps a pass executes are the steps the source holds when the pass
\* starts.
C23_StepsReadEachPass ==
    [][passes' = passes + 1 => steps' = fileSteps]_vars

\* ----------------------------------------------------------- run claims
\* the run is over: the result banner was printed, or the process was ended
RunOver == runPc \in {"done", "exited"}

\* an assert step of the run got a value other than the boolean true
CheckFailedAt(i) ==
    /\ runSteps[ran[i].step] = "assert"
    /\ ran[i].outcome = "ok"
    /\ ran[i].effect = "fail"

\* C24: an assert step whose expression evaluates to anything but the
\* boolean true marks the task failed, and every step after it is still
\* executed, in order.
C24_NoAbortOnFailedCheck ==
    (RunOver /\ \E i \in 1..Len(ran) : CheckFailedAt(i)) =>
        /\ failed
        /\ Len(ran) = Len(runSteps)
        /\ \A i \in 1..Len(ran) : ran[i].step = i

\* C25: when a step of any kind fails (relay unreachable, element not
\* found, no screenshot data) the task is marked failed and the
\* interpreter goes on with the next step: every step runs once.
C25_LocalRecovery ==
    [][\A o \in {"notFound", "transportError"}, v \in CheckValues :
           RunStep(o, v) =>
               /\ failed'
               /\ runPc' = IF runIdx < Len(runSteps) THEN "steps" ELSE "done"
               /\ runIdx' = runIdx + 1]_vars

\* C26: when the relay answers the command of a goto step with an error,
\* the task's result is failed; the result is succeeded only if the relay
\* answered no step's call with an error.
C26_RelayErrorFailsTask ==
    runPc = "done" =>
        /\ (\E i \in 1..Len(ran) :
               /\ runSteps[ran[i].step] = "goto"
               /\ ran[i].outcome = "relayError") => TaskResult = "failed"
        /\ TaskResult = "succeeded" =>
               \A i \in 1..Len(ran) : ran[i].outcome # "relayError"

\* --------------------------------------------------------- routing claims
\* the messages a step hands to upstream sockets
UpstreamSent == UNION {extInbox'[e] \ extInbox[e] : e \in ExtIds}

\* a step that sends nothing upstream and creates no pending call
NothingForwarded ==
    /\ messageId' = messageId
    /\ pendingRequests' = pendingRequests
    /\ extInbox' = extInbox

\* a step that sends exactly one message upstream, with a new identifier
\* and a pending call under it
OneForwarded ==
    /\ messageId' = messageId + 1
    /\ Cardinality(UpstreamSent) = 1
    /\ \A msg \in UpstreamSent : msg.id = messageId'
    /\ DOMAIN pendingRequests' = DOMAIN pendingRequests \cup {messageId'}

\* the answer routeCDPCommand's switch gives a WebSocket client
LocalWsAnswer(id, method, arg) ==
    LET r == Route(method, arg, ResolveSession(Null, connectedTargets),
                   connectedTargets)
    IN IF r.kind = "throw" THEN ErrorMsg(id, Null, r.error)
       ELSE ReplyMsg(id, Null, r.result)

\* the response routeCDPCommand's switch gives an HTTP request
LocalHttpAnswer(method, arg) ==
    LET r == Route(method, arg, ResolveSession(Null, connectedTargets),
                   connectedTargets)
    IN HttpAnswer(r.kind = "local", r.result, r.error)

RejectsOnly(id) ==
    LET cont == pendingRequests[id]
    IN /\ DOMAIN pendingRequests' = DOMAIN pendingRequests \ {id}
       /\ \A j \in DOMAIN pendingRequests' :
              pendingRequests'[j] = pendingRequests[j]
       /\ upCalls'[id].status = "rejected"
       /\ \A j \in 1..Len(upCalls) : j # id => upCalls'[j] = upCalls[j]
       /\ \A c \in ConnIds : c # cont.conn => toClient'[c] = <<>>
       /\ \A h \in 1..Len(httpResp) : h # cont.h => httpResp'[h] = httpResp[h]
       /\ (cont.kind = "ws" /\ wsConn[cont.conn].state = "open") =>
              /\ Len(toClient'[cont.conn]) = 1
              /\ toClient'[cont.conn][1].id = cont.id
              /\ toClient'[cont.conn][1].error # Null
       /\ cont.kind = "http" => httpResp'[cont.h].status = 500

\* C28: the expiry of one call's deadline, or an error reply for one call,
\* removes and rejects only that call: every other pending call stays in
\* the table and is still resolved by its own reply, and the error goes to
\* the caller's connection only.
C28_PendingCallsIsolated ==
    /\ [][\A id \in DOMAIN pendingRequests :
              (\/ UpTimeout(id)
               \/ \E e \in ExtIds : \E msg \in extInbox[e] :
                      msg.id = id /\ ExtReply(e, msg, FALSE))
                  => RejectsOnly(id)]_vars
    /\ [][\A e \in ExtIds : \A msg \in extInbox[e] :
              (ExtReply(e, msg, TRUE) /\ msg.id \in DOMAIN pendingRequests) =>
                  /\ upCalls'[msg.id].status = "resolved"
                  /\ upCalls'[msg.id].result = Echo(msg)
                  /\ DOMAIN pendingRequests' =
                         DOMAIN pendingRequests \ {msg.id}]_vars

\* C28 witness: of three calls issued, one was rejected on its deadline,
\* one was rejected by an error reply and one was resolved by its reply
C28_ThreeFates ==
    /\ Len(upCalls) = 3
    /\ \E i, j, k \in 1..3 :
           /\ pendingRequests = <<>>
           /\ upCalls[i].error = TimeoutError("forwardCDPCommand")
           /\ upCalls[j].error = "RemoteError"
           /\ upCalls[k].status = "resolved"
           /\ upCalls[k].settles = 1
           /\ i # j

\* no two calls of the log share an identifier
DistinctIds(calls) ==
    \A i, j \in 1..Len(calls) : i # j => calls[i].id # calls[j].id

\* C29: the identifiers one correlator issues are strictly increasing, so
\* no two calls share one; for the relay this holds across its downstream
\* callers and across upstream replacement, and a reply resolves the call
\* of the command it answers: the WebSocket client's p1 or an HTTP
\* caller's p2, never the other's.
C29_IdentifiersUnique ==
    /\ [](DistinctIds(upCalls) /\ DistinctIds(cdpCalls))
    /\ [](/\ DOMAIN pendingRequests \subseteq 1..messageId
          /\ DOMAIN cdpPending \subseteq 1..cdpMessageId)
    /\ [][/\ messageId' # messageId =>
                 /\ messageId' = messageId + 1
                 /\ upCalls'[Len(upCalls')].id = messageId'
          /\ cdpMessageId' # cdpMessageId =>
                 /\ cdpMessageId' = cdpMessageId + 1
                 /\ cdpCalls'[Len(cdpCalls')].id = cdpMessageId']_vars
    /\ [][\A e \in ExtIds : \A msg \in extInbox[e] :
              (ExtReply(e, msg, TRUE) /\ msg.id \in DOMAIN pendingRequests) =>
                  LET cont == pendingRequests[msg.id]
                  IN IF cont.kind = "ws"
                     THEN /\ msg.arg = "p1"
                          /\ wsConn[cont.conn].state = "open" =>
                                 toClient'[cont.conn][1].result.arg = "p1"
                     ELSE /\ msg.arg = "p2"
                          /\ httpResp'[cont.h].result.arg = "p2"]_vars

\* C29 witness: an HTTP caller's call is outstanding at the replaced
\* upstream connection and the WebSocket client's at the one that replaced
\* it, under different identifiers, beside two outstanding BrowserCDP calls
C29_OutstandingAcrossReplacement ==
    /\ extensionWs = 2
    /\ DOMAIN pendingRequests = {1, 2}
    /\ \E m1 \in extInbox[1], m2 \in extInbox[2] :
           /\ m1.id = 1 /\ m1.arg = "p2"
           /\ m2.id = 2 /\ m2.arg = "p1"
    /\ DOMAIN cdpPending = {1, 2}

\* ---------------------------------------------------------- bextract claim
\* C30: when bextract extracts from two or more sessions at once through
\* the default client endpoint, every extraction's connection is accepted
\* by the relay, and the command each sends while an upstream connection
\* is active is forwarded for its own session, so that none is left
\* without an answer until its timer fires.
C30_ParallelExtractionsServed ==
    /\ [](\A c \in ConnIds : wsConn[c].state # "none" => wsConn[c].accepted)
    /\ [][\A c \in ConnIds, s \in Sessions :
              (ExtractSend(c, s) /\ extensionWs # 0) =>
                  /\ messageId' = messageId + 1
                  /\ \E msg \in extInbox'[extensionWs] :
                         msg.id = messageId' /\ msg.sessionId = s]_vars

\* ------------------------------------------------ loop and runner claims
\* how a step's failure is seen from outside the step: the process is gone,
\* the enclosing catch recorded a failure, or nothing failed
FailureOf(effect) ==
    CASE effect = "exit" -> "exit"
      [] effect \in {"throw", "fail"} -> "recorded"
      [] OTHER -> "none"

\* C31: the loop's pass is a pass of the runner's step interpreter: every
\* step of the task format that the loop executes lands in the same case
\* as in the runner (it is not skipped as unknown) and, for the same
\* answer of its transport call, ends with the same failure outcome.
C31_LoopPassIsRunnerPass ==
    [][\A o \in {"ok", "notFound", "relayError", "transportError"},
          v \in CheckValues :
          LoopStep(o, v) =>
              /\ LoopDispatch(steps[stepIdx]) = RunDispatch(steps[stepIdx])
              /\ o \in RunOutcomesOf(steps[stepIdx])
              /\ FailureOf(StepEffect(steps[stepIdx], o)) =
                     FailureOf(RunEffect(steps[stepIdx], o, v))]_vars

\* ------------------------------------------------- session table claims
\* a downstream client's command for session s2 is forwarded while the
\* session table does not hold s2
ForwardsUnknown ==
    /\ \E c \in ConnIds : CDPMessage(c, Evaluate, "p1", "s2")
    /\ Forwards
    /\ ~MapHas(connectedTargets, "s2")

\* C32: a forwarded command that names a session identifier the session
\* table does not hold is not failed: the relay falls back to a tracked
\* session and forwards the command with that session.
C32_UnknownSessionFallsBack ==
    [][(ForwardsUnknown /\ connectedTargets # <<>>) =>
           \E msg \in extInbox'[extensionWs] :
               /\ msg.id = messageId'
               /\ MapHas(connectedTargets, msg.sessionId)]_vars

\* C32 amended: a forwarded command that names a session identifier the
\* session table does not hold is not failed and no session is substituted:
\* it goes upstream once, with the identifier it named, and its caller
\* awaits the reply.
C32_UnknownSessionForwardedAsNamed ==
    [][ForwardsUnknown =>
           /\ \E msg \in extInbox'[extensionWs] :
                  /\ msg.id = messageId'
                  /\ msg.sessionId = "s2"
                  /\ msg.method = Evaluate
           /\ messageId' \in DOMAIN pendingRequests'
           /\ upCalls'[messageId'].status = "pending"
           /\ toClient' = Quiet]_vars

\* C32 witness: only s1 was ever attached, and the command naming s2 is
\* with the upstream peer under that name
C32_UnknownNameUpstream ==
    /\ extensionWs # 0
    /\ extConn[2] = "none"
    /\ nEvents = 1
    /\ Len(connectedTargets) = 1
    /\ connectedTargets[1].sessionId = "s1"
    /\ \E msg \in extInbox[extensionWs] :
           msg.sessionId = "s2" /\ msg.id = messageId

\* the session identifiers a table holds
Keys(targets) == {targets[i].sessionId : i \in 1..Len(targets)}

\* the entries of all sessions but s are the same in both tables
SameBut(old, new, s) ==
    \A k \in Keys(old) \ {s} : MapHas(new, k) /\ MapGet(new, k) = MapGet(old, k)

\* C33: an attach event adds or overwrites exactly the entry of its
\* session, a detach event removes exactly the entry of its session and
\* changes nothing for an unknown one, a title/URL update changes only the
\* metadata of the session on the tab it names and adds or removes none;
\* GET /targets and the attachment replay report the table as it is after
\* the update.
C33_TableMaintenance ==
    [][/\ \A e \in ExtIds : \A ev \in TableEvents(nEvents + 1) :
              ExtEvent(e, ev) =>
                  LET old == connectedTargets
                      new == connectedTargets'
                  IN CASE ev.method = AttachedEv ->
                            /\ Keys(new) = Keys(old) \cup {ev.psid}
                            /\ Len(new) = Cardinality(Keys(new))
                            /\ MapGet(new, ev.psid) =
                                   [sessionId |-> ev.psid,
                                    targetId |-> ev.info.targetId,
                                    targetInfo |-> ev.info]
                            /\ SameBut(old, new, ev.psid)
                       [] ev.method = DetachedEv ->
                            /\ Keys(new) = Keys(old) \ {ev.psid}
                            /\ Len(new) = Cardinality(Keys(new))
                            /\ SameBut(old, new, ev.psid)
                            /\ ev.psid \notin Keys(old) => new = old
                       [] ev.method = InfoChangedEv ->
                            /\ Len(new) = Len(old)
                            /\ \A i \in 1..Len(old) :
                                   IF old[i].targetId = ev.info.targetId
                                   THEN new[i] = [old[i] EXCEPT
                                                     !.targetInfo = ev.info]
                                   ELSE new[i] = old[i]
                       [] OTHER -> new = old
       /\ nEvents' = nEvents => connectedTargets' \in
              {connectedTargets, <<>>}
       /\ \A c \in ConnIds : AutoAttachAcked(c, Null) =>
              /\ Len(toClient'[c]) = Len(GetTargets) + 1
              /\ \A i \in 1..Len(GetTargets) :
                     /\ toClient'[c][i + 1].psid = GetTargets[i].sessionId
                     /\ toClient'[c][i + 1].info =
                            Attached(GetTargets[i].targetInfo)]_vars

\* C33 witness: s1 was attached on t1 with m1, the update set m2, and the
\* replay and GET /targets both report m2 for s1
C33_UpdatedMetadataReported ==
    \E c \in ConnIds :
        /\ nEvents = 2
        /\ nCmds = 1
        /\ Len(GetTargets) = 1
        /\ GetTargets[1].sessionId = "s1"
        /\ GetTargets[1].targetInfo = TargetInfo("t1", "m2")
        /\ Len(toClient[c]) = 2
        /\ toClient[c][2].psid = "s1"
        /\ toClient[c][2].info.meta = "m2"

\* C34: in every reachable state of the relay in which no upstream
\* connection is recorded (GET /status reports extension: false) the
\* session table is empty (targets is 0).
C34_NoUpstreamNoSessions ==
    ~GetStatus.extension => GetStatus.targets = 0

\* the downstream connections that were accepted and are open
OpenAccepted == {c \in ConnIds : wsConn[c].state = "open" /\ wsConn[c].accepted}

\* C35: the client table always holds exactly the accepted downstream
\* connections that are still open: the close event of one connection
\* never removes the registration of another, still open connection
\* registered later under the same identifier; the clients count of
\* GET /status is the number of open accepted clients.
C35_ClientTableIsOpenClients ==
    /\ Registered = OpenAccepted
    /\ GetStatus.clients = Cardinality(OpenAccepted)

\* C36: only the active upstream connection changes the relay's state: a
\* message that still arrives from an upstream connection that was
\* replaced neither adds, removes or modifies a session nor is sent to any
\* downstream client.
C36_ReplacedUpstreamIsInert ==
    [][\A e \in ExtIds : \A ev \in ExtEvents(nEvents + 1) :
           (ExtEvent(e, ev) /\ extensionWs # 0 /\ e # extensionWs) =>
               /\ connectedTargets' = connectedTargets
               /\ toClient' = Quiet]_vars

\* --------------------------------------------------- command path claims
\* in the current state POST /cdp answers the command at once with this
\* result and this error message
HttpAnswersWith(method, arg, result, error) ==
    ENABLED (/\ HttpCdp(method, arg, Null)
             /\ httpResp'[Len(httpResp')].status # 0
             /\ httpResp'[Len(httpResp')].result = result
             /\ httpResp'[Len(httpResp')].error = error)

\* in the current state POST /cdp forwards the command upstream
HttpForwards(method, arg) ==
    ENABLED (/\ HttpCdp(method, arg, Null)
             /\ messageId' = messageId + 1
             /\ httpResp'[Len(httpResp')] = PendingResponse)

\* C37: the WebSocket command path and POST /cdp are equivalent: in the
\* same relay state the same command has the same outcome on both paths,
\* the same result, the same error or the same forwarding upstream, also
\* for a locally answered method while no upstream connection exists.
C37_PathsEquivalent ==
    [][\A c \in ConnIds, m \in RouteMethods, a \in RouteArgs :
           (/\ CDPMessage(c, m, a, Null)
            /\ wsConn[c].state = "open" /\ wsConn[c].accepted
            /\ Len(httpResp) < MaxHttp) =>
               IF toClient'[c] = <<>>
               THEN messageId' = messageId + 1 /\ HttpForwards(m, a)
               ELSE \E ans \in {toClient'[c][1]} :
                        HttpAnswersWith(m, a, ans.result, ans.error)]_vars

\* ----------------------------------------------------- loop bound claims
\* C38: every pass the loop executes is recorded exactly once in the loop
\* state, as a success or as an error: when the loop has ended with a
\* terminal status, the number of recorded outcomes equals the number of
\* passes executed and equals the iteration counter.
C38_PassesAccounted ==
    (loopPc = "done" /\ loopState.status \in Terminal) =>
        /\ Len(loopState.completed) + Len(loopState.errors) = passes
        /\ loopState.iteration = passes

\* C39: the loop honours the configured bounds, the value 0 included: with
\* maxIterations n and timeout t as given on the command line it makes at
\* most n passes and starts no pass once more than t seconds have elapsed.
C39_ConfiguredBoundsHonoured ==
    /\ [](passes <= options.maxIterations)
    /\ [][passes' = passes + 1 => now <= options.maxRuntime]_vars

\* ---------------------------------------------------- BrowserCDP binding
\* C40: the session binding of a BrowserCDP client is latched: the first
\* attachment event it receives sets its session and tab identifier, no
\* later attachment or detachment event changes them, and every command
\* sent without an explicit session carries the bound session identifier.
C40_BindingLatched ==
    [][/\ cdpSessionId # Null =>
              cdpSessionId' = cdpSessionId /\ cdpTargetId' = cdpTargetId
       /\ (cdpSessionId = Null /\ cdpSessionId' # Null) =>
              /\ cdpInbox # <<>>
              /\ cdpInbox' = Tail(cdpInbox)
              /\ Head(cdpInbox).method = AttachedEv
              /\ cdpSessionId' = Head(cdpInbox).psid
              /\ cdpTargetId' = Head(cdpInbox).info.targetId
       /\ (/\ cdpSessionId = Null
           /\ cdpInbox # <<>>
           /\ cdpInbox' = Tail(cdpInbox)
           /\ Head(cdpInbox).method = AttachedEv) => cdpSessionId' # Null
       /\ \A a \in Args :
              CDPSend(Evaluate, a, Null) =>
                  \E msg \in cdpWire' \ cdpWire :
                      /\ msg.id = cdpMessageId'
                      /\ msg.sessionId = cdpSessionId
                      /\ cdpCalls'[Len(cdpCalls')].sessionId = cdpSessionId]_vars

\* C40 witness: bound to s1 on t1, the client has handled a second event
\* and its command sent without a session carries s1
C40_BoundAfterSecondEvent ==
    /\ cdpSessionId = "s1"
    /\ cdpTargetId = "t1"
    /\ cdpEvents = 2
    /\ cdpInbox = <<>>
    /\ \E msg \in cdpWire : msg.sessionId = "s1"

====
